---- MODULE Spec2Model ----
(***************************************************************************)
(* LuminaNote: the task / project persistence and state-reconciliation     *)
(* layer.  One mounted State Manager (the useTasks or the useProjects      *)
(* hook), the Durable Store (localStorage) entry of its entity type, the   *)
(* Embedded Relational Store (the sql.js singleton) and its persisted      *)
(* blob.                                                                   *)
(*                                                                         *)
(* React is modelled by what it does to the hook: a handler runs with the  *)
(* values of the last render (r), a state setter replaces the state, the   *)
(* component is rendered again, and the effects whose dependencies changed *)
(* run one after the other (effq) with the values of that render, before   *)
(* the next event is handled.                                              *)
(*                                                                         *)
(* Values: an absent (undefined / false) optional string is "undefined",   *)
(* SQL NULL is "null", an absent lastCompletedAt is day 0; calendar days   *)
(* are numbered, day 1 being the day before the session starts.            *)
(***************************************************************************)
EXTENDS Integers, Sequences, FiniteSets, TLC

VARIABLES
    kind,        \* "task": the hook is useTasks; "project": it is useProjects
    ls,          \* localStorage[lumina-tasks / lumina-projects]: <<>> absent, <<v>> holding v
    blob,        \* localStorage[luminanote-sqlite-db]: the rows last saved
    dbInit,      \* database.ts: db !== null
    table,       \* the rows of the entity type's table, in rowid order
    dbReady,     \* DatabaseProvider: isReady
    localItems,  \* useLocalStorage: storedValue (localTasks / localProjects)
    dbItems,     \* useState: dbTasks / dbProjects
    useDb,       \* useState: useDb
    r,           \* the values the last render closed over
    effq,        \* the effects of the last render that still have to run
    dirty,       \* the setters called since the last render
    today,       \* the calendar day of the wall clock
    added,       \* how many ids generateId has handed out
    ops,         \* how many events (handler calls, storage events, mounts, midnights) have happened
    lastOp,      \* history: the step just taken
    migrations,  \* history: how often the migration copy was performed (capped)
    everFailed,  \* history: ids whose relational mutation raised an error
    rt,          \* the round trip of one entity through the repository
    up,          \* one call of updateProgress on a project
    page,        \* the projects page: both managers and the project detail view
    tabs,        \* useLocalStorage in two tabs, and the storage events between them
    live,        \* the load effect under fair scheduling: did the instance's last load raise
    timer,       \* useTimer: the Pomodoro timer, its saved state, and page reloads
    boot,        \* services/database: the calls of initDatabase and the instances they made
    repo,        \* the repository, statement by statement, and the saved image
    calls        \* two calls of a manager's handlers within one render

hook == <<kind, ls, blob, dbInit, table, dbReady, localItems, dbItems, useDb,
          r, effq, dirty, today, added, ops, lastOp, migrations, everFailed>>

\* The variables of the studies that stand beside the hook.
aux == <<rt, up, page, tabs, live, timer, boot, repo, calls>>

vars == <<hook, aux>>

-----------------------------------------------------------------------------
(* Bounds *)

MaxAdds == 1
MaxDay == 3
MaxOps == 2

-----------------------------------------------------------------------------
(* Sequence helpers *)

Range(s) == {s[i] : i \in 1..Len(s)}

IdsOf(s) == {s[i].id : i \in 1..Len(s)}

Min(a, b) == IF a < b THEN a ELSE b

RemoveAt(s, i) == [j \in 1..(Len(s) - 1) |-> IF j < i THEN s[j] ELSE s[j + 1]]

\* The injective sequences over a finite set: its arrangements.
Perms(S) == {p \in [1..Cardinality(S) -> S] : \A i, j \in 1..Cardinality(S) : p[i] = p[j] => i = j}

Truthy(x) == x # "undefined" /\ x # "null" /\ x # ""

\* x || null
OrNull(x) == IF Truthy(x) THEN x ELSE "null"

-----------------------------------------------------------------------------
(* services/taskRepository over the tasks table of services/database *)

\* task.order || 0
OrZero(n) == IF n = 0 THEN 0 ELSE n

\* The positional parameters insertTask / updateTask bind: the columns of a row.
TaskRow(task) ==
    [id |-> task.id, title |-> task.title,
     completed |-> IF task.completed THEN 1 ELSE 0,
     category |-> task.category, priority |-> task.priority,
     created_at |-> task.createdAt,
     project_id |-> OrNull(task.projectId), due_date |-> OrNull(task.dueDate),
     task_order |-> OrZero(task.order)]

\* The row-to-Task mapping of getAllTasks: nine columns, nine fields; the
\* fields it does not set are undefined on the object it builds.
RowTask(row) ==
    [id |-> row.id, title |-> row.title, completed |-> row.completed # 0,
     category |-> row.category, priority |-> row.priority,
     createdAt |-> row.created_at,
     projectId |-> row.project_id, dueDate |-> row.due_date,
     dueTime |-> "undefined", isRecurring |-> FALSE, lastCompletedAt |-> 0,
     order |-> row.task_order]

\* ORDER BY task_order ASC; rows of equal task_order in rowid order.
RECURSIVE SortByTaskOrder(_)
SortByTaskOrder(rows) ==
    IF rows = <<>> THEN <<>>
    ELSE LET i == CHOOSE k \in 1..Len(rows) :
                      /\ \A j \in 1..Len(rows) : rows[k].task_order <= rows[j].task_order
                      /\ \A j \in 1..(k - 1) : rows[j].task_order # rows[k].task_order
         IN  <<rows[i]>> \o SortByTaskOrder(RemoveAt(rows, i))

GetAllTasks(rows) ==
    LET sorted == SortByTaskOrder(rows)
    IN  [i \in 1..Len(sorted) |-> RowTask(sorted[i])]

\* A repository call gives ok = FALSE when db.run raised an error (boom: the
\* engine fails; or the PRIMARY KEY constraint of the INSERT), and then the
\* rows are as before: the statement did not run.
InsertTask(rows, task, boom) ==
    IF boom \/ task.id \in IdsOf(rows)
    THEN [ok |-> FALSE, rows |-> rows]
    ELSE [ok |-> TRUE, rows |-> Append(rows, TaskRow(task))]

UpdateTaskRow(rows, task, boom) ==
    IF boom THEN [ok |-> FALSE, rows |-> rows]
    ELSE [ok |-> TRUE,
          rows |-> [i \in 1..Len(rows) |->
                      IF rows[i].id = task.id
                      THEN [TaskRow(task) EXCEPT !.created_at = rows[i].created_at]
                      ELSE rows[i]]]

DeleteTaskRow(rows, id, boom) ==
    IF boom THEN [ok |-> FALSE, rows |-> rows]
    ELSE [ok |-> TRUE, rows |-> SelectSeq(rows, LAMBDA row : row.id # id)]

\* A faulty toggle statement: SET completed = 1.
ToggleTaskRowSetsDone(rows, id, boom) ==
    IF boom THEN [ok |-> FALSE, rows |-> rows]
    ELSE [ok |-> TRUE,
          rows |-> [i \in 1..Len(rows) |->
                      IF rows[i].id = id THEN [rows[i] EXCEPT !.completed = 1]
                      ELSE rows[i]]]

\* UPDATE tasks SET completed = NOT completed WHERE id = ?
ToggleTaskRow(rows, id, boom) ==
    IF boom THEN [ok |-> FALSE, rows |-> rows]
    ELSE [ok |-> TRUE,
          rows |-> [i \in 1..Len(rows) |->
                      IF rows[i].id = id
                      THEN [rows[i] EXCEPT !.completed = IF rows[i].completed = 0 THEN 1 ELSE 0]
                      ELSE rows[i]]]

\* One UPDATE per id, in list order: task_order = index.  n is the number of
\* statements that run before db.run raises (n = Len(orderedIds): none does).
RECURSIVE SetOrders(_, _, _, _)
SetOrders(rows, orderedIds, k, n) ==
    IF k > n THEN rows
    ELSE SetOrders([i \in 1..Len(rows) |->
                      IF rows[i].id = orderedIds[k]
                      THEN [rows[i] EXCEPT !.task_order = k - 1]
                      ELSE rows[i]],
                   orderedIds, k + 1, n)

UpdateTaskOrder(rows, orderedIds, n) ==
    [ok |-> n = Len(orderedIds), rows |-> SetOrders(rows, orderedIds, 1, n)]

\* saveDatabase, called after db.run returned: the whole store is exported.
SaveDatabase(res, saved) == IF res.ok THEN res.rows ELSE saved


-----------------------------------------------------------------------------
(* services/projectRepository over the projects table *)

\* JSON.stringify(tags) and the JSON.parse that reads it back.
ToJson(x) == <<"json", x>>

FromJson(text) == text[2]

ProjectRow(project) ==
    [id |-> project.id, name |-> project.name, description |-> project.description,
     progress |-> project.progress, total_tasks |-> project.totalTasks,
     completed_tasks |-> project.completedTasks, color |-> project.color,
     status |-> project.status, created_at |-> project.createdAt,
     deadline |-> OrNull(project.deadline), tags |-> ToJson(project.tags)]

RowProject(row) ==
    [id |-> row.id, name |-> row.name, description |-> row.description,
     progress |-> row.progress, totalTasks |-> row.total_tasks,
     completedTasks |-> row.completed_tasks, color |-> row.color,
     status |-> row.status, createdAt |-> row.created_at,
     deadline |-> row.deadline,
     tags |-> IF row.tags # "null" THEN FromJson(row.tags) ELSE <<>>]

\* ORDER BY created_at DESC; rows of equal created_at in rowid order.
RECURSIVE SortByCreatedDesc(_)
SortByCreatedDesc(rows) ==
    IF rows = <<>> THEN <<>>
    ELSE LET i == CHOOSE k \in 1..Len(rows) :
                      /\ \A j \in 1..Len(rows) : rows[k].created_at >= rows[j].created_at
                      /\ \A j \in 1..(k - 1) : rows[j].created_at # rows[k].created_at
         IN  <<rows[i]>> \o SortByCreatedDesc(RemoveAt(rows, i))

GetAllProjects(rows) ==
    LET sorted == SortByCreatedDesc(rows)
    IN  [i \in 1..Len(sorted) |-> RowProject(sorted[i])]

InsertProject(rows, project, boom) ==
    IF boom \/ project.id \in IdsOf(rows)
    THEN [ok |-> FALSE, rows |-> rows]
    ELSE [ok |-> TRUE, rows |-> Append(rows, ProjectRow(project))]

UpdateProjectRow(rows, project, boom) ==
    IF boom THEN [ok |-> FALSE, rows |-> rows]
    ELSE [ok |-> TRUE,
          rows |-> [i \in 1..Len(rows) |->
                      IF rows[i].id = project.id
                      THEN [ProjectRow(project) EXCEPT !.created_at = rows[i].created_at]
                      ELSE rows[i]]]

DeleteProjectRow(rows, id, boom) ==
    IF boom THEN [ok |-> FALSE, rows |-> rows]
    ELSE [ok |-> TRUE, rows |-> SelectSeq(rows, LAMBDA row : row.id # id)]

-----------------------------------------------------------------------------
(* The data the model runs on *)

Categories == {"today", "week"}

\* Stored before the session: a recurring task completed the day before, and
\* a plain high-priority task.
StaleTask ==
    [id |-> 1, title |-> "t", completed |-> TRUE, category |-> "today",
     priority |-> "medium", createdAt |-> "c", projectId |-> "undefined",
     dueDate |-> "undefined", dueTime |-> "undefined", isRecurring |-> TRUE,
     lastCompletedAt |-> 1, order |-> 0]

PlainTask ==
    [id |-> 2, title |-> "t", completed |-> FALSE, category |-> "today",
     priority |-> "high", createdAt |-> "c", projectId |-> "undefined",
     dueDate |-> "undefined", dueTime |-> "undefined", isRecurring |-> FALSE,
     lastCompletedAt |-> 0, order |-> 1]

StoredIds == {StaleTask.id, PlainTask.id}

\* defaultProjects, the demo projects of a first-time user (created_at as a
\* day count: the first is the older).
DefaultProjects ==
    << [id |-> 1, name |-> "App Redesign", description |-> "d", progress |-> 65,
        totalTasks |-> 12, completedTasks |-> 8, color |-> "slate", status |-> "active",
        createdAt |-> 0, deadline |-> "2026-01-15", tags |-> <<"design", "frontend">>],
       [id |-> 2, name |-> "Documentation", description |-> "d", progress |-> 30,
        totalTasks |-> 10, completedTasks |-> 3, color |-> "sage", status |-> "active",
        createdAt |-> 1, deadline |-> "2026-01-31", tags |-> <<"docs">>] >>

\* What localStorage holds under the entity type's key when the session starts.
InitialDurable(k) ==
    IF k = "task"
    THEN {<<>>, << <<StaleTask>> >>, << <<StaleTask, PlainTask>> >>}
    ELSE {<<>>, << <<>> >>, << <<DefaultProjects[2]>> >>}

\* What an earlier session left in the relational store.
InitialBlobs(k) ==
    IF k = "task" THEN {<<>>, <<TaskRow(PlainTask)>>}
    ELSE {<<>>, <<ProjectRow(DefaultProjects[1])>>}

\* What another tab may write under the key.
OtherTabValues(k) ==
    IF k = "task" THEN {<<>>, <<StaleTask>>} ELSE {<<>>, <<DefaultProjects[2]>>}

\* changeStatus(id, status) is updateProject(id, { status }).
ProjectUpdates == {[status |-> "on-hold"], [status |-> "active"]}

\* The options the model passes to addTask(title, category, options).
AddOptions ==
    {[priority |-> "undefined", isRecurring |-> FALSE],
     [priority |-> "undefined", isRecurring |-> TRUE],
     [priority |-> "low", isRecurring |-> FALSE]}

\* The partial updates the model passes to update(id, updates).
TaskUpdates == {[projectId |-> "p1"], [projectId |-> "undefined"]}

-----------------------------------------------------------------------------
(* hooks/useLocalStorage *)

\* The initialValue argument of the hook.
InitialValue(k) == IF k = "task" THEN <<>> ELSE DefaultProjects

\* readValue: the parsed item, or initialValue when there is none.
ReadValue(k, store) == IF store # <<>> THEN store[1] ELSE InitialValue(k)

-----------------------------------------------------------------------------
(* React: renders and effects *)

NoFlags == [loc |-> FALSE, db |-> FALSE, rdy |-> FALSE]

Flags(a, b) == [loc |-> a.loc \/ b.loc, db |-> a.db \/ b.db, rdy |-> a.rdy \/ b.rdy]

\* The effects of the hook, in the order the hook declares them.
AllEffects(k) == IF k = "task" THEN <<"load", "sweep">> ELSE <<"load">>

Stable == effq = <<>>

\* A render happens when a setter was called with a new value.
Rendered(d) == d.loc \/ d.db \/ d.rdy \/ useDb' # r.useDb

\* The effects whose dependencies changed in the new render.  load:
\* [dbReady, localTasks].  sweep: [tasks, setTasks]; relational-backed,
\* setTasks is a new function in every render; otherwise it is the
\* useCallback of useLocalStorage, which changes with storedValue.
Pending(d) ==
    (IF d.rdy \/ d.loc THEN <<"load">> ELSE <<>>)
    \o (IF kind = "task" /\ (useDb' \/ useDb' # r.useDb \/ d.loc) THEN <<"sweep">> ELSE <<>>)

\* After a handler or an effect that called the setters d: the effects still
\* queued run first; then the component renders with the new state.
Finish(d, rest) ==
    IF rest # <<>>
    THEN r' = r /\ effq' = rest /\ dirty' = d
    ELSE IF ~Rendered(d)
    THEN r' = r /\ effq' = <<>> /\ dirty' = NoFlags
    ELSE /\ r' = [localItems |-> localItems', dbItems |-> dbItems',
                  useDb |-> useDb', dbReady |-> dbReady']
         /\ effq' = Pending(d)
         /\ dirty' = NoFlags

-----------------------------------------------------------------------------
(* hooks/useTasks and hooks/useProjects: the state they share *)

\* tasks = useDb ? dbTasks : localTasks, as the last render computed it.
Items == IF r.useDb THEN r.dbItems ELSE r.localItems

\* A faulty setTasks: relational-backed, it writes the Durable Store as well.
SetItemsBoth(v) ==
    IF r.useDb
    THEN dbItems' = v /\ ls' = <<v>> /\ UNCHANGED localItems
    ELSE localItems' = v /\ ls' = <<v>> /\ UNCHANGED dbItems

\* setTasks(updater): relational-backed, setDbTasks(updater(dbTasks)); else
\* the setValue of useLocalStorage, which stores updater(storedValue) in the
\* state and in localStorage.  v is the updater applied to Items.
SetItems(v) ==
    IF r.useDb
    THEN dbItems' = v /\ UNCHANGED <<localItems, ls>>
    ELSE localItems' = v /\ ls' = <<v>> /\ UNCHANGED dbItems

SetFlags == IF r.useDb THEN [NoFlags EXCEPT !.db = TRUE] ELSE [NoFlags EXCEPT !.loc = TRUE]

\* A faulty handler: it rolls its in-memory mutation back when the call raised.
AfterCatchRollback(ok, prev, next) == IF ok THEN next ELSE prev

\* try { repository call } catch { console.error }: the handler goes on to
\* its in-memory mutation whatever the call did.
AfterCatch(ok, prev, next) == next

Op(name) ==
    [op |-> name, id |-> 0, ok |-> TRUE, db |-> r.useDb, cat |-> "", list |-> <<>>,
     reset |-> {}, how |-> ""]

\* One more event of the session, within the model's budget.
Event == ops < MaxOps /\ ops' = ops + 1

NoteFailure(ids, res) == IF res.ok THEN everFailed ELSE everFailed \cup ids


\* The repository of the hook's entity type.
GetAll(rows) == IF kind = "task" THEN GetAllTasks(rows) ELSE GetAllProjects(rows)

Insert(rows, e, boom) ==
    IF kind = "task" THEN InsertTask(rows, e, boom) ELSE InsertProject(rows, e, boom)

\* A faulty copy: only the first entity is inserted.
InsertFirstOnly(rows, items, k, n) == Insert(rows, items[1], 1 > n)

\* localTasks.forEach(task => taskRepo.insertTask(task)): the inserts run in
\* list order until one raises; n of them run before the engine fails
\* (n >= Len(items): it does not).
RECURSIVE InsertEach(_, _, _, _)
InsertEach(rows, items, k, n) ==
    IF k > Len(items) THEN [ok |-> TRUE, rows |-> rows]
    ELSE LET res == Insert(rows, items[k], k > n)
         IN  IF res.ok THEN InsertEach(res.rows, items, k + 1, n) ELSE res

\* A faulty load effect: with nothing to load and nothing to copy it falls
\* back to the Durable Store.
LoadDecisionFallsBack(rows, locals, readBoom, n) ==
    IF readBoom THEN [how |-> "error", rows |-> rows, items |-> <<>>, use |-> FALSE]
    ELSE IF Len(GetAll(rows)) > 0
    THEN [how |-> "loaded", rows |-> rows, items |-> GetAll(rows), use |-> TRUE]
    ELSE IF Len(locals) > 0
    THEN LET res == InsertEach(rows, locals, 1, n)
         IN  IF res.ok
             THEN [how |-> "migrated", rows |-> res.rows, items |-> locals, use |-> TRUE]
             ELSE [how |-> "error", rows |-> res.rows, items |-> <<>>, use |-> FALSE]
    ELSE [how |-> "empty", rows |-> rows, items |-> <<>>, use |-> FALSE]

\* A faulty load effect: it copies the Durable Store entities whatever the
\* table holds.
LoadDecisionAlwaysCopies(rows, locals, readBoom, n) ==
    IF readBoom THEN [how |-> "error", rows |-> rows, items |-> <<>>, use |-> FALSE]
    ELSE IF Len(locals) > 0
    THEN LET res == InsertEach(rows, locals, 1, n)
         IN  IF res.ok
             THEN [how |-> "migrated", rows |-> res.rows, items |-> locals, use |-> TRUE]
             ELSE [how |-> "error", rows |-> res.rows, items |-> <<>>, use |-> FALSE]
    ELSE IF Len(GetAll(rows)) > 0
    THEN [how |-> "loaded", rows |-> rows, items |-> GetAll(rows), use |-> TRUE]
    ELSE [how |-> "empty", rows |-> rows, items |-> <<>>, use |-> TRUE]

\* A faulty load effect: it reads the rows an earlier session left and stays
\* Durable-Store-backed.
LoadDecisionIgnoresRows(rows, locals, readBoom, n) ==
    IF readBoom THEN [how |-> "error", rows |-> rows, items |-> <<>>, use |-> FALSE]
    ELSE IF Len(GetAll(rows)) > 0
    THEN [how |-> "loaded", rows |-> rows, items |-> GetAll(rows), use |-> FALSE]
    ELSE IF Len(locals) > 0
    THEN LET res == InsertEach(rows, locals, 1, n)
         IN  IF res.ok
             THEN [how |-> "migrated", rows |-> res.rows, items |-> locals, use |-> TRUE]
             ELSE [how |-> "error", rows |-> res.rows, items |-> <<>>, use |-> FALSE]
    ELSE [how |-> "empty", rows |-> rows, items |-> <<>>, use |-> TRUE]

\* The body of the load effect: what it decides from the rows it read and the
\* localTasks of its render.  readBoom: getAllTasks raised.
LoadDecision(rows, locals, readBoom, n) ==
    IF readBoom THEN [how |-> "error", rows |-> rows, items |-> <<>>, use |-> FALSE]
    ELSE IF Len(GetAll(rows)) > 0
    THEN [how |-> "loaded", rows |-> rows, items |-> GetAll(rows), use |-> TRUE]
    ELSE IF Len(locals) > 0
    THEN LET res == InsertEach(rows, locals, 1, n)
         IN  IF res.ok
             THEN [how |-> "migrated", rows |-> res.rows, items |-> locals, use |-> TRUE]
             ELSE [how |-> "error", rows |-> res.rows, items |-> <<>>, use |-> FALSE]
    ELSE [how |-> "empty", rows |-> rows, items |-> <<>>, use |-> TRUE]

-----------------------------------------------------------------------------
(* Events outside the hook *)

\* initDatabase resolved: the store is loaded from the saved blob, or created
\* empty, and DatabaseProvider sets isReady.
InitDatabaseDone ==
    /\ Stable /\ ~dbReady
    /\ dbInit' = TRUE /\ table' = blob /\ dbReady' = TRUE
    /\ lastOp' = Op("ready")
    /\ UNCHANGED <<kind, ls, blob, localItems, dbItems, useDb, today, added, ops,
                   migrations, everFailed>>
    /\ Finish([NoFlags EXCEPT !.rdy = TRUE], <<>>)

\* handleStorageChange: another tab wrote v under the hook's key.
StorageEvent(v) ==
    /\ Stable /\ Event
    /\ ls' = <<v>> /\ localItems' = v
    /\ lastOp' = Op("storage")
    /\ UNCHANGED <<kind, blob, dbInit, table, dbReady, dbItems, useDb, today, added,
                   migrations, everFailed>>
    /\ Finish([NoFlags EXCEPT !.loc = TRUE], <<>>)

\* Midnight passes.
DayChange ==
    /\ Stable /\ Event /\ today < MaxDay
    /\ today' = today + 1
    /\ lastOp' = Op("day")
    /\ UNCHANGED <<kind, ls, blob, dbInit, table, dbReady, localItems, dbItems, useDb,
                   r, effq, dirty, added, migrations, everFailed>>

\* The page is left and another page calling the hook is mounted: a new
\* instance of the hook, its state initialised as at the first mount.
Remount ==
    /\ Stable /\ Event
    /\ localItems' = ReadValue(kind, ls) /\ dbItems' = <<>> /\ useDb' = FALSE
    /\ r' = [localItems |-> localItems', dbItems |-> <<>>, useDb |-> FALSE,
             dbReady |-> dbReady]
    /\ effq' = AllEffects(kind) /\ dirty' = NoFlags
    /\ lastOp' = Op("mount")
    /\ UNCHANGED <<kind, ls, blob, dbInit, table, dbReady, today, added,
                   migrations, everFailed>>

-----------------------------------------------------------------------------
(* The effects *)

\* useEffect(load from SQLite when database is ready, [dbReady, localTasks])
LoadEffect ==
    /\ effq # <<>> /\ Head(effq) = "load"
    /\ UNCHANGED <<kind, ls, dbInit, dbReady, localItems, today, added, ops, everFailed>>
    /\ IF r.dbReady /\ dbInit
       THEN \E readOk \in BOOLEAN, n \in 0..Len(r.localItems) :
              LET d == LoadDecision(table, r.localItems, ~readOk, n)
              IN  /\ table' = d.rows
                  /\ blob' = IF d.rows # table THEN d.rows ELSE blob
                  /\ useDb' = d.use
                  /\ dbItems' = IF d.how \in {"loaded", "migrated"} THEN d.items ELSE dbItems
                  /\ migrations' = IF d.how = "migrated" THEN Min(migrations + 1, 2)
                                   ELSE migrations
                  /\ lastOp' = [Op("load") EXCEPT !.how = d.how, !.ok = d.how # "error"]
                  /\ Finish([dirty EXCEPT !.db = @ \/ d.how \in {"loaded", "migrated"}],
                            Tail(effq))
       ELSE /\ UNCHANGED <<table, blob, useDb, dbItems, migrations>>
            /\ lastOp' = [Op("load") EXCEPT !.how = "idle"]
            /\ Finish(dirty, Tail(effq))

\* A faulty filter: it also takes the completed tasks that do not recur.
TasksToResetAll(tasks, day) ==
    {tasks[i].id : i \in {j \in 1..Len(tasks) :
        /\ tasks[j].completed
        /\ (tasks[j].lastCompletedAt = 0 \/ tasks[j].lastCompletedAt # day)}}

\* The tasks the sweep resets: recurring, completed, and last completed on
\* another calendar day than today (or never stamped).
TasksToReset(tasks, day) ==
    {tasks[i].id : i \in {j \in 1..Len(tasks) :
        /\ tasks[j].isRecurring /\ tasks[j].completed
        /\ (tasks[j].lastCompletedAt = 0 \/ tasks[j].lastCompletedAt # day)}}

\* A faulty reset: it clears the stamp and leaves the task completed.
ResetTasksStampOnly(prev, ids) ==
    [i \in 1..Len(prev) |-> IF prev[i].id \in ids THEN [prev[i] EXCEPT !.lastCompletedAt = 0]
                            ELSE prev[i]]

\* prev.map(task => tasksToReset.find(...) ? { ...task, completed: false } : task)
ResetTasks(prev, ids) ==
    [i \in 1..Len(prev) |-> IF prev[i].id \in ids THEN [prev[i] EXCEPT !.completed = FALSE]
                            ELSE prev[i]]

\* useEffect(reset recurring tasks daily, [tasks, setTasks])
SweepEffect ==
    /\ effq # <<>> /\ Head(effq) = "sweep"
    /\ UNCHANGED <<kind, blob, dbInit, table, dbReady, useDb, today, added, ops,
                   migrations, everFailed>>
    /\ LET ids == TasksToReset(Items, today)
       IN  /\ lastOp' = [Op("sweep") EXCEPT !.reset = ids]
           /\ IF ids # {}
              THEN SetItems(ResetTasks(Items, ids)) /\ Finish(Flags(dirty, SetFlags), Tail(effq))
              ELSE UNCHANGED <<localItems, dbItems, ls>> /\ Finish(dirty, Tail(effq))


-----------------------------------------------------------------------------
(* hooks/useTasks: the operations *)

\* generateId: an id no stored or earlier task has.
NewId == Cardinality(StoredIds) + added + 1

\* The ids a caller may name: those of the collection and one of no entity.
CallIds == IdsOf(Items) \cup {NewId}

InCategory(tasks, cat) == SelectSeq(tasks, LAMBDA t : t.category = cat)

\* A faulty addTask: order is the count of all tasks, whatever their category.
NewTaskCountsAll(cat, prio, rec) ==
    [id |-> NewId, title |-> "t", completed |-> FALSE, category |-> cat,
     priority |-> IF Truthy(prio) THEN prio ELSE "medium", createdAt |-> "c",
     projectId |-> "undefined", dueDate |-> "undefined", dueTime |-> "undefined",
     isRecurring |-> rec, lastCompletedAt |-> 0,
     order |-> Len(Items)]

NewTask(cat, prio, rec) ==
    [id |-> NewId, title |-> "t", completed |-> FALSE, category |-> cat,
     priority |-> IF Truthy(prio) THEN prio ELSE "medium", createdAt |-> "c",
     projectId |-> "undefined", dueDate |-> "undefined", dueTime |-> "undefined",
     isRecurring |-> rec, lastCompletedAt |-> 0,
     order |-> Len(InCategory(Items, cat))]

\* The repository call of a handler: made only when relational-backed.
Repo(res) == IF r.useDb THEN res ELSE [ok |-> TRUE, rows |-> table]

Persist(res) ==
    /\ table' = res.rows
    /\ blob' = IF r.useDb THEN SaveDatabase(res, blob) ELSE blob

AddTask(cat, prio, rec, boom) ==
    /\ Stable /\ Event /\ kind = "task" /\ added < MaxAdds
    /\ boom => r.useDb
    /\ LET newTask == NewTask(cat, prio, rec)
           res == Repo(InsertTask(table, newTask, boom))
       IN  /\ Persist(res)
           /\ SetItems(AfterCatch(res.ok, Items, Append(Items, newTask)))
           /\ lastOp' = [Op("add") EXCEPT !.id = newTask.id, !.ok = res.ok, !.cat = cat,
                                          !.how = prio]
           /\ everFailed' = NoteFailure({newTask.id}, res)
    /\ added' = added + 1
    /\ UNCHANGED <<kind, dbInit, dbReady, useDb, today, migrations>>
    /\ Finish(SetFlags, <<>>)

\* A faulty toggle: it stamps every task that becomes completed.
ToggledStampsAll(task, day) ==
    [task EXCEPT !.completed = ~task.completed,
                 !.lastCompletedAt = IF ~task.completed THEN day ELSE task.lastCompletedAt]

Toggled(task, day) ==
    [task EXCEPT !.completed = ~task.completed,
                 !.lastCompletedAt = IF task.isRecurring /\ ~task.completed THEN day
                                     ELSE task.lastCompletedAt]

ToggleTask(id, boom) ==
    /\ Stable /\ Event /\ kind = "task"
    /\ boom => r.useDb
    /\ LET res == Repo(ToggleTaskRow(table, id, boom))
           next == [i \in 1..Len(Items) |->
                      IF Items[i].id # id THEN Items[i] ELSE Toggled(Items[i], today)]
       IN  /\ Persist(res)
           /\ SetItems(AfterCatch(res.ok, Items, next))
           /\ lastOp' = [Op("toggle") EXCEPT !.id = id, !.ok = res.ok]
           /\ everFailed' = NoteFailure({id}, res)
    /\ UNCHANGED <<kind, dbInit, dbReady, useDb, today, added, migrations>>
    /\ Finish(SetFlags, <<>>)

DeleteTask(id, boom) ==
    /\ Stable /\ Event /\ kind = "task"
    /\ boom => r.useDb
    /\ LET res == Repo(DeleteTaskRow(table, id, boom))
           next == SelectSeq(Items, LAMBDA t : t.id # id)
       IN  /\ Persist(res)
           /\ SetItems(AfterCatch(res.ok, Items, next))
           /\ lastOp' = [Op("delete") EXCEPT !.id = id, !.ok = res.ok]
           /\ everFailed' = NoteFailure({id}, res)
    /\ UNCHANGED <<kind, dbInit, dbReady, useDb, today, added, migrations>>
    /\ Finish(SetFlags, <<>>)

\* A faulty merge: the update also resets the entity's place in its list.
MergeResetsOrder(e, updates) ==
    [f \in DOMAIN e |-> IF f \in DOMAIN updates THEN updates[f]
                        ELSE IF f = "order" THEN 0
                        ELSE IF f = "progress" THEN 0 ELSE e[f]]

\* { ...entity, ...updates }
Merge(e, updates) == [f \in DOMAIN e |-> IF f \in DOMAIN updates THEN updates[f] ELSE e[f]]

Merged(prev, id, updates) ==
    [i \in 1..Len(prev) |-> IF prev[i].id = id THEN Merge(prev[i], updates) ELSE prev[i]]

\* updated.find(t => t.id === id)
Find(items, id) == SelectSeq(items, LAMBDA e : e.id = id)

UpdateTask(id, updates, boom) ==
    /\ Stable /\ Event /\ kind = "task"
    /\ boom => r.useDb
    /\ LET updated == Merged(Items, id, updates)
           found == Find(updated, id)
           res == IF found # <<>> THEN Repo(UpdateTaskRow(table, found[1], boom))
                  ELSE [ok |-> TRUE, rows |-> table]
       IN  /\ Persist(res)
           /\ SetItems(AfterCatch(res.ok, Items, updated))
           /\ lastOp' = [Op("update") EXCEPT !.id = id, !.ok = res.ok]
           /\ everFailed' = NoteFailure({id}, res)
    /\ UNCHANGED <<kind, dbInit, dbReady, useDb, today, added, migrations>>
    /\ Finish(SetFlags, <<>>)

\* useTaskFilters.applyFilters with the priority filter set to prio (or null).
ApplyFilters(tasks, prio) ==
    SelectSeq(tasks, LAMBDA t : prio = "null" \/ t.priority = prio)

\* A faulty reorder: the order values start at 1.
ReorderedFromOne(prev, cat, list) ==
    SelectSeq(prev, LAMBDA t : t.category # cat)
    \o [i \in 1..Len(list) |-> [list[i] EXCEPT !.order = i]]

Reordered(prev, cat, list) ==
    SelectSeq(prev, LAMBDA t : t.category # cat)
    \o [i \in 1..Len(list) |-> [list[i] EXCEPT !.order = i - 1]]

\* The arrangements of the list the task page displays for a category.
Displayed(cat, prio) ==
    IF kind = "task" THEN Perms(Range(ApplyFilters(InCategory(Items, cat), prio))) ELSE {}

\* The task page's drag-and-drop: the list is the displayed (filtered) list
\* of the category, re-arranged.  n: the UPDATEs that run before one raises.
ReorderTasks(cat, prio, list, n) ==
    /\ Stable /\ Event /\ kind = "task"
    /\ Len(list) >= 2
    /\ list \in Displayed(cat, prio)
    /\ n < Len(list) => r.useDb
    /\ LET orderedIds == [i \in 1..Len(list) |-> list[i].id]
           res == Repo(UpdateTaskOrder(table, orderedIds, n))
       IN  /\ Persist(res)
           /\ SetItems(AfterCatch(res.ok, Items, Reordered(Items, cat, list)))
           /\ lastOp' = [Op("reorder") EXCEPT !.cat = cat, !.ok = res.ok, !.list = orderedIds]
           /\ everFailed' = NoteFailure(Range(orderedIds), res)
    /\ UNCHANGED <<kind, dbInit, dbReady, useDb, today, added, migrations>>
    /\ Finish(SetFlags, <<>>)

-----------------------------------------------------------------------------
(* JavaScript numbers: the double-precision arithmetic of updateProgress.    *)
(* A positive double is a significand, a sequence of binary digits (most     *)
(* significant first, at most Precision of them), and a scale: its value is  *)
(* the significand read as an integer, divided by 2^scale.                   *)

Precision == 53

\* The binary digits of a natural number; none for 0.
RECURSIVE BinaryDigits(_)
BinaryDigits(n) == IF n = 0 THEN <<>> ELSE Append(BinaryDigits(n \div 2), n % 2)

RECURSIVE ToInt(_)
ToInt(bits) ==
    IF bits = <<>> THEN 0
    ELSE 2 * ToInt(SubSeq(bits, 1, Len(bits) - 1)) + bits[Len(bits)]

\* The w low binary digits of a natural number.
LowDigits(n, w) == [i \in 1..w |-> (n \div 2^(w - i)) % 2]

\* The digits without their leading zeros.
Significant(digits) ==
    IF \A i \in 1..Len(digits) : digits[i] = 0 THEN <<>>
    ELSE LET first == CHOOSE i \in 1..Len(digits) :
                          digits[i] = 1 /\ \A j \in 1..(i - 1) : digits[j] = 0
         IN  SubSeq(digits, first, Len(digits))

\* bits + 1
Increment(bits) ==
    IF \A i \in 1..Len(bits) : bits[i] = 1
    THEN <<1>> \o [i \in 1..Len(bits) |-> 0]
    ELSE LET last == CHOOSE i \in 1..Len(bits) :
                         bits[i] = 0 /\ \A j \in (i + 1)..Len(bits) : bits[j] = 1
         IN  [i \in 1..Len(bits) |-> IF i < last THEN bits[i] ELSE IF i = last THEN 1 ELSE 0]

\* Round to nearest, ties to even: the exact digits of a result, cut to
\* Precision digits.  sticky: the exact result has non-zero digits after those
\* given.
RoundToDouble(digits, scale, sticky) ==
    IF Len(digits) <= Precision THEN [m |-> digits, scale |-> scale]
    ELSE LET n == Len(digits)
             m == SubSeq(digits, 1, Precision)
             rest == sticky \/ \E i \in (Precision + 2)..n : digits[i] = 1
             away == digits[Precision + 1] = 1 /\ (rest \/ m[Precision] = 1)
             rounded == IF away THEN Increment(m) ELSE m
             kept == scale - (n - Precision)
         IN  IF Len(rounded) > Precision
             THEN [m |-> SubSeq(rounded, 1, Precision), scale |-> kept - 1]
             ELSE [m |-> rounded, scale |-> kept]

\* Long division, eight binary digits a step: the first 8 * steps digits of
\* rem / t after the binary point, and what is left.
RECURSIVE DivideDigits(_, _, _)
DivideDigits(rem, t, steps) ==
    IF steps = 0 THEN [digits |-> <<>>, rem |-> rem]
    ELSE LET next == DivideDigits((rem * 256) % t, t, steps - 1)
         IN  [digits |-> LowDigits((rem * 256) \div t, 8) \o next.digits, rem |-> next.rem]

\* c / t, for c > 0 and 0 < t < 2^17: 72 digits after the binary point hold
\* more than Precision significant ones.
Divide(c, t) ==
    LET q == DivideDigits(c % t, t, 9)
    IN  RoundToDouble(Significant(BinaryDigits(c \div t) \o q.digits), 72, q.rem # 0)

\* The exact digits of bits * factor + carry, eight digits a step.
RECURSIVE MultiplyDigits(_, _, _)
MultiplyDigits(bits, factor, carry) ==
    IF bits = <<>> THEN BinaryDigits(carry)
    ELSE LET n == Len(bits)
             w == IF n < 8 THEN n ELSE 8
             sum == ToInt(SubSeq(bits, n - w + 1, n)) * factor + carry
         IN  MultiplyDigits(SubSeq(bits, 1, n - w), factor, sum \div 2^w)
             \o LowDigits(sum, w)

\* x * factor
Multiply(x, factor) == RoundToDouble(MultiplyDigits(x.m, factor, 0), x.scale, FALSE)

\* Math.round(x): the nearest integer, a half going up.
MathRound(x) ==
    LET n == Len(x.m)
        whole == n - x.scale
    IN  IF whole < 0 THEN 0
        ELSE ToInt(SubSeq(x.m, 1, whole)) + (IF whole < n THEN x.m[whole + 1] ELSE 0)

\* totalTasks > 0 ? Math.round((completedTasks / totalTasks) * 100) : 0
Progress(completedTasks, totalTasks) ==
    IF totalTasks > 0
    THEN IF completedTasks = 0 THEN 0
         ELSE MathRound(Multiply(Divide(completedTasks, totalTasks), 100))
    ELSE 0

-----------------------------------------------------------------------------
(* hooks/useProjects: the operations *)

NewProject(color) ==
    [id |-> NewId, name |-> "n", description |-> "d", progress |-> 0, totalTasks |-> 0,
     completedTasks |-> 0, color |-> IF Truthy(color) THEN color ELSE "slate",
     status |-> "active", createdAt |-> today, deadline |-> "undefined", tags |-> <<>>]

AddProject(color, boom) ==
    /\ Stable /\ Event /\ kind = "project" /\ added < MaxAdds
    /\ boom => r.useDb
    /\ LET newProject == NewProject(color)
           res == Repo(InsertProject(table, newProject, boom))
       IN  /\ Persist(res)
           /\ SetItems(AfterCatch(res.ok, Items, Append(Items, newProject)))
           /\ lastOp' = [Op("add") EXCEPT !.id = newProject.id, !.ok = res.ok]
           /\ everFailed' = NoteFailure({newProject.id}, res)
    /\ added' = added + 1
    /\ UNCHANGED <<kind, dbInit, dbReady, useDb, today, migrations>>
    /\ Finish(SetFlags, <<>>)

UpdateProject(id, updates, boom) ==
    /\ Stable /\ Event /\ kind = "project"
    /\ boom => r.useDb
    /\ LET updated == Merged(Items, id, updates)
           found == Find(updated, id)
           res == IF found # <<>> THEN Repo(UpdateProjectRow(table, found[1], boom))
                  ELSE [ok |-> TRUE, rows |-> table]
       IN  /\ Persist(res)
           /\ SetItems(AfterCatch(res.ok, Items, updated))
           /\ lastOp' = [Op("update") EXCEPT !.id = id, !.ok = res.ok]
           /\ everFailed' = NoteFailure({id}, res)
    /\ UNCHANGED <<kind, dbInit, dbReady, useDb, today, added, migrations>>
    /\ Finish(SetFlags, <<>>)

DeleteProject(id, boom) ==
    /\ Stable /\ Event /\ kind = "project"
    /\ boom => r.useDb
    /\ LET res == Repo(DeleteProjectRow(table, id, boom))
           next == SelectSeq(Items, LAMBDA e : e.id # id)
       IN  /\ Persist(res)
           /\ SetItems(AfterCatch(res.ok, Items, next))
           /\ lastOp' = [Op("delete") EXCEPT !.id = id, !.ok = res.ok]
           /\ everFailed' = NoteFailure({id}, res)
    /\ UNCHANGED <<kind, dbInit, dbReady, useDb, today, added, migrations>>
    /\ Finish(SetFlags, <<>>)

-----------------------------------------------------------------------------
(* The specification *)

Mounted ==
    /\ dbInit = FALSE /\ table = <<>> /\ dbReady = FALSE
    /\ localItems = ReadValue(kind, ls) /\ dbItems = <<>> /\ useDb = FALSE
    /\ r = [localItems |-> localItems, dbItems |-> <<>>, useDb |-> FALSE, dbReady |-> FALSE]
    /\ effq = AllEffects(kind) /\ dirty = NoFlags
    /\ today = 2 /\ added = 0 /\ ops = 0
    /\ lastOp = Op("mount") /\ migrations = 0 /\ everFailed = {}

Init ==
    /\ kind \in {"task", "project"}
    /\ ls \in InitialDurable(kind)
    /\ blob \in InitialBlobs(kind)
    /\ Mounted
    /\ rt = [phase |-> "off", e |-> <<>>, rows |-> <<>>, back |-> <<>>]
    /\ up = [phase |-> "off"]
    /\ page = [phase |-> "off"]
    /\ tabs = [phase |-> "off"]
    /\ live = [phase |-> "off"]
    /\ timer = [phase |-> "off"]
    /\ boot = [phase |-> "off"]
    /\ repo = [phase |-> "off"]
    /\ calls = [phase |-> "off"]

Next ==
    \/ InitDatabaseDone /\ UNCHANGED aux
    \/ \E v \in OtherTabValues(kind) : StorageEvent(v) /\ UNCHANGED aux
    \/ DayChange /\ UNCHANGED aux
    \/ Remount /\ UNCHANGED aux
    \/ LoadEffect /\ UNCHANGED aux
    \/ SweepEffect /\ UNCHANGED aux
    \/ \E cat \in Categories, options \in AddOptions, boom \in BOOLEAN :
          AddTask(cat, options.priority, options.isRecurring, boom) /\ UNCHANGED aux
    \/ \E id \in CallIds, boom \in BOOLEAN : ToggleTask(id, boom) /\ UNCHANGED aux
    \/ \E id \in CallIds, boom \in BOOLEAN : DeleteTask(id, boom) /\ UNCHANGED aux
    \/ \E id \in CallIds, updates \in TaskUpdates, boom \in BOOLEAN :
          UpdateTask(id, updates, boom) /\ UNCHANGED aux
    \/ \E color \in {"undefined", "sage"}, boom \in BOOLEAN :
          AddProject(color, boom) /\ UNCHANGED aux
    \/ \E id \in CallIds, updates \in ProjectUpdates, boom \in BOOLEAN :
          UpdateProject(id, updates, boom) /\ UNCHANGED aux
    \/ \E id \in CallIds, boom \in BOOLEAN : DeleteProject(id, boom) /\ UNCHANGED aux
    \/ \E cat \in Categories, prio \in {"null", "medium"} :
          \E list \in Displayed(cat, prio) :
             \E n \in 0..Len(list) : ReorderTasks(cat, prio, list, n) /\ UNCHANGED aux

Spec == Init /\ [][Next]_vars

-----------------------------------------------------------------------------
(* The repository alone: one entity inserted into an empty table and read back *)

TaskUniverse ==
    [id : {1}, title : {"t"}, completed : BOOLEAN,
     category : {"today", "week", "backlog"}, priority : {"low", "medium", "high"},
     createdAt : {"c"}, projectId : {"undefined", "p1"},
     dueDate : {"undefined", "2026-01-01"}, dueTime : {"undefined", "09:00"},
     isRecurring : BOOLEAN, lastCompletedAt : {0, 1}, order : {0, 1, 2}]

ProjectUniverse ==
    [id : {1}, name : {"n"}, description : {"", "d"}, progress : {0, 50, 100},
     totalTasks : {0, 4}, completedTasks : {0, 2, 4},
     color : {"slate", "sage", "amber", "rose"},
     status : {"active", "on-hold", "completed"}, createdAt : {0},
     deadline : {"undefined", "2026-02-01"}, tags : {<<>>, <<"a">>, <<"a", "b">>}]

InitRT ==
    /\ kind \in {"task", "project"}
    /\ ls = <<>> /\ blob = <<>>
    /\ Mounted
    /\ \E e \in (IF kind = "task" THEN TaskUniverse ELSE ProjectUniverse) :
          rt = [phase |-> "new", e |-> e, rows |-> <<>>, back |-> <<>>]
    /\ up = [phase |-> "off"]
    /\ page = [phase |-> "off"]
    /\ tabs = [phase |-> "off"]
    /\ live = [phase |-> "off"]
    /\ timer = [phase |-> "off"]
    /\ boot = [phase |-> "off"]
    /\ repo = [phase |-> "off"]
    /\ calls = [phase |-> "off"]

\* insertTask(e) / insertProject(e) on the empty table
RtInsert ==
    /\ rt.phase = "new"
    /\ rt' = [rt EXCEPT !.phase = "stored", !.rows = Insert(<<>>, rt.e, FALSE).rows]
    /\ UNCHANGED <<hook, up, page, tabs, live, timer, boot, repo, calls>>

\* getAllTasks() / getAllProjects()
RtRead ==
    /\ rt.phase = "stored"
    /\ rt' = [rt EXCEPT !.phase = "read", !.back = GetAll(rt.rows)]
    /\ UNCHANGED <<hook, up, page, tabs, live, timer, boot, repo, calls>>

NextRT == RtInsert \/ RtRead

SpecRT == InitRT /\ [][NextRT]_vars

-----------------------------------------------------------------------------
(* updateProgress alone: one call on a project of any status *)

MaxTasks == 40

\* A faulty updateProgress: it leaves the status alone.
ProgressUpdatesKeepStatus(completedTasks, totalTasks) ==
    [completedTasks |-> completedTasks, totalTasks |-> totalTasks,
     progress |-> Progress(completedTasks, totalTasks)]

\* updateProgress(id, completedTasks, totalTasks): the fields it hands to
\* updateProject.
ProgressUpdates(completedTasks, totalTasks) ==
    LET progress == Progress(completedTasks, totalTasks)
    IN  [completedTasks |-> completedTasks, totalTasks |-> totalTasks,
         progress |-> progress,
         status |-> IF progress = 100 THEN "completed" ELSE "active"]

InitUP ==
    /\ kind = "project"
    /\ ls = <<>> /\ blob = <<>>
    /\ Mounted
    /\ rt = [phase |-> "off", e |-> <<>>, rows |-> <<>>, back |-> <<>>]
    /\ page = [phase |-> "off"]
    /\ tabs = [phase |-> "off"]
    /\ live = [phase |-> "off"]
    /\ timer = [phase |-> "off"]
    /\ boot = [phase |-> "off"]
    /\ repo = [phase |-> "off"]
    /\ calls = [phase |-> "off"]
    /\ \E c \in 0..MaxTasks, t \in 0..MaxTasks, status \in {"active", "on-hold", "completed"} :
          up = [phase |-> "new", c |-> c, t |-> t,
                projects |-> <<[DefaultProjects[1] EXCEPT !.status = status],
                               DefaultProjects[2]>>,
                before |-> status]

\* updateProgress(1, c, t): the collection updateProject computes.
UpdateProgress ==
    /\ up.phase = "new"
    /\ up' = [up EXCEPT !.phase = "done",
                        !.projects = Merged(up.projects, 1, ProgressUpdates(up.c, up.t))]
    /\ UNCHANGED <<hook, rt, page, tabs, live, timer, boot, repo, calls>>

NextUP == UpdateProgress

SpecUP == InitUP /\ [][NextUP]_vars

\* The largest task count of a project in the calls with nearly all tasks done.
MaxTotal == 200

\* updateProgress called for a project with all of its tasks done, or all
\* but one or two.
InitNearlyDone ==
    /\ kind = "project"
    /\ ls = <<>> /\ blob = <<>>
    /\ Mounted
    /\ rt = [phase |-> "off", e |-> <<>>, rows |-> <<>>, back |-> <<>>]
    /\ page = [phase |-> "off"]
    /\ tabs = [phase |-> "off"]
    /\ live = [phase |-> "off"]
    /\ timer = [phase |-> "off"]
    /\ boot = [phase |-> "off"]
    /\ repo = [phase |-> "off"]
    /\ calls = [phase |-> "off"]
    /\ \E t \in 1..MaxTotal, left \in 0..2 :
          /\ left <= t
          /\ up = [phase |-> "new", c |-> t - left, t |-> t,
                   projects |-> DefaultProjects, before |-> "active"]

SpecNearlyDone == InitNearlyDone /\ [][NextUP]_vars

-----------------------------------------------------------------------------
(* pages/ProjectsPage: useProjects and useTasks side by side, and the        *)
(* handlers of the project detail view.  Both managers have settled in one   *)
(* mode (useDb) and no task is recurring, so their effects have nothing to   *)
(* do; every repository call succeeds.                                       *)

MaxPageOps == 4

\* The projectId that refers to the project of the given id.
ProjectRef(id) == IF id = 1 THEN "p1" ELSE IF id = 2 THEN "p2" ELSE "p3"

\* A stored task linked to the second demo project.
LinkedTask == [PlainTask EXCEPT !.projectId = ProjectRef(2), !.category = "backlog", !.order = 0]

PageSetProjects(pg, v, rows) ==
    [pg EXCEPT !.projects = v,
               !.lsP = IF pg.useDb THEN @ ELSE <<v>>,
               !.tblP = IF pg.useDb THEN rows ELSE @]

PageSetTasks(pg, v, rows) ==
    [pg EXCEPT !.tasks = v,
               !.lsT = IF pg.useDb THEN @ ELSE <<v>>,
               !.tblT = IF pg.useDb THEN rows ELSE @]

\* useTasks.addTask(title, 'backlog', { projectId })
PageAddTask(pg, ref) ==
    LET newTask == [id |-> pg.nextId, title |-> "t", completed |-> FALSE,
                    category |-> "backlog", priority |-> "medium", createdAt |-> "c",
                    projectId |-> ref, dueDate |-> "undefined", dueTime |-> "undefined",
                    isRecurring |-> FALSE, lastCompletedAt |-> 0,
                    order |-> Len(InCategory(pg.tasks, "backlog"))]
    IN  [PageSetTasks(pg, Append(pg.tasks, newTask), InsertTask(pg.tblT, newTask, FALSE).rows)
            EXCEPT !.nextId = @ + 1]

\* useTasks.toggleTask(id)
PageToggleTask(pg, id) ==
    PageSetTasks(pg,
                 [i \in 1..Len(pg.tasks) |->
                    IF pg.tasks[i].id # id THEN pg.tasks[i] ELSE Toggled(pg.tasks[i], today)],
                 ToggleTaskRow(pg.tblT, id, FALSE).rows)

\* useTasks.deleteTask(id)
PageDeleteTask(pg, id) ==
    PageSetTasks(pg, SelectSeq(pg.tasks, LAMBDA t : t.id # id),
                 DeleteTaskRow(pg.tblT, id, FALSE).rows)

\* useProjects.updateProject(id, updates)
PageUpdateProject(pg, id, updates) ==
    LET updated == Merged(pg.projects, id, updates)
        found == Find(updated, id)
    IN  PageSetProjects(pg, updated,
                        IF found # <<>> THEN UpdateProjectRow(pg.tblP, found[1], FALSE).rows
                        ELSE pg.tblP)

\* A faulty deleteProject: it removes the tasks of the project as well.
PageDeleteProjectCascading(pg, id) ==
    PageSetTasks(PageSetProjects(pg, SelectSeq(pg.projects, LAMBDA e : e.id # id),
                                 DeleteProjectRow(pg.tblP, id, FALSE).rows),
                 SelectSeq(pg.tasks, LAMBDA t : t.projectId # ProjectRef(id)),
                 SelectSeq(pg.tblT, LAMBDA row : row.project_id # ProjectRef(id)))

\* useProjects.deleteProject(id)
PageDeleteProject(pg, id) ==
    PageSetProjects(pg, SelectSeq(pg.projects, LAMBDA e : e.id # id),
                    DeleteProjectRow(pg.tblP, id, FALSE).rows)

\* getTasksByProject(selectedProject.id)
ProjectTasks(pg) == SelectSeq(pg.tasks, LAMBDA t : t.projectId = ProjectRef(pg.selected))

CompletedCount(tasks) == Len(SelectSeq(tasks, LAMBDA t : t.completed))

PageStep == page.phase = "on" /\ page.n < MaxPageOps

Stepped(pg, name, id) == [pg EXCEPT !.n = page.n + 1, !.last = [op |-> name, id |-> id]]

\* handleOpenProject / handleCloseProject
OpenProject(id) ==
    /\ PageStep /\ page.selected = 0
    /\ id \in IdsOf(page.projects)
    /\ page' = Stepped([page EXCEPT !.selected = id], "open", id)
    /\ UNCHANGED <<hook, rt, up, tabs, live, timer, boot, repo, calls>>

CloseProject ==
    /\ PageStep /\ page.selected # 0
    /\ page' = Stepped([page EXCEPT !.selected = 0], "close", page.selected)
    /\ UNCHANGED <<hook, rt, up, tabs, live, timer, boot, repo, calls>>

\* ProjectDetailModal.handleAddTask
HandleAddTask ==
    /\ PageStep /\ page.selected # 0 /\ page.nextId <= 4
    /\ LET totalTasks == Len(ProjectTasks(page))
           completedTasks == CompletedCount(ProjectTasks(page))
           added1 == PageAddTask(page, ProjectRef(page.selected))
       IN  page' = Stepped(PageUpdateProject(added1, page.selected,
                              [totalTasks |-> totalTasks + 1,
                               progress |-> Progress(completedTasks, totalTasks + 1)]),
                           "handleAddTask", page.nextId)
    /\ UNCHANGED <<hook, rt, up, tabs, live, timer, boot, repo, calls>>

\* ProjectDetailModal.handleToggleTask
HandleToggleTask(taskId) ==
    /\ PageStep /\ page.selected # 0
    /\ taskId \in IdsOf(ProjectTasks(page))
    /\ LET totalTasks == Len(ProjectTasks(page))
           completedTasks == CompletedCount(ProjectTasks(page))
           task == Find(ProjectTasks(page), taskId)[1]
           newCompleted == IF task.completed THEN completedTasks - 1 ELSE completedTasks + 1
       IN  page' = Stepped(PageUpdateProject(PageToggleTask(page, taskId), page.selected,
                              [completedTasks |-> newCompleted,
                               progress |-> Progress(newCompleted, totalTasks)]),
                           "handleToggleTask", taskId)
    /\ UNCHANGED <<hook, rt, up, tabs, live, timer, boot, repo, calls>>

\* ProjectDetailModal.handleDeleteTask
HandleDeleteTask(taskId) ==
    /\ PageStep /\ page.selected # 0
    /\ taskId \in IdsOf(ProjectTasks(page))
    /\ LET totalTasks == Len(ProjectTasks(page))
           completedTasks == CompletedCount(ProjectTasks(page))
           task == Find(ProjectTasks(page), taskId)[1]
           newTotal == totalTasks - 1
           newCompleted == IF task.completed THEN completedTasks - 1 ELSE completedTasks
       IN  page' = Stepped(PageUpdateProject(PageDeleteTask(page, taskId), page.selected,
                              [totalTasks |-> newTotal, completedTasks |-> newCompleted,
                               progress |-> Progress(newCompleted, newTotal)]),
                           "handleDeleteTask", taskId)
    /\ UNCHANGED <<hook, rt, up, tabs, live, timer, boot, repo, calls>>

\* ProjectDetailModal.handleDelete: deleteProject, then the view closes.
HandleDelete ==
    /\ PageStep /\ page.selected # 0
    /\ page' = Stepped([PageDeleteProject(page, page.selected) EXCEPT !.selected = 0],
                       "deleteProject", page.selected)
    /\ UNCHANGED <<hook, rt, up, tabs, live, timer, boot, repo, calls>>

\* ProjectList onDelete: deleteProject(id)
ListDelete(id) ==
    /\ PageStep /\ page.selected = 0
    /\ id \in IdsOf(page.projects)
    /\ page' = Stepped(PageDeleteProject(page, id), "deleteProject", id)
    /\ UNCHANGED <<hook, rt, up, tabs, live, timer, boot, repo, calls>>

\* ProjectList onStatusChange: changeStatus(id, status)
ChangeStatus(id, status) ==
    /\ PageStep /\ page.selected = 0
    /\ id \in IdsOf(page.projects)
    /\ page' = Stepped(PageUpdateProject(page, id, [status |-> status]), "changeStatus", id)
    /\ UNCHANGED <<hook, rt, up, tabs, live, timer, boot, repo, calls>>

\* The task manager's remove by itself, as the task list calls it.
RemoveTask(id) ==
    /\ PageStep /\ page.selected = 0
    /\ id \in IdsOf(page.tasks)
    /\ page' = Stepped(PageDeleteTask(page, id), "deleteTask", id)
    /\ UNCHANGED <<hook, rt, up, tabs, live, timer, boot, repo, calls>>

InitPage ==
    /\ kind = "project"
    /\ ls = <<>> /\ blob = <<>>
    /\ Mounted
    /\ rt = [phase |-> "off", e |-> <<>>, rows |-> <<>>, back |-> <<>>]
    /\ up = [phase |-> "off"]
    /\ tabs = [phase |-> "off"]
    /\ live = [phase |-> "off"]
    /\ timer = [phase |-> "off"]
    /\ boot = [phase |-> "off"]
    /\ repo = [phase |-> "off"]
    /\ calls = [phase |-> "off"]
    /\ \E db \in BOOLEAN, tasks \in {<<>>, <<LinkedTask>>} :
          page = [phase |-> "on", useDb |-> db, projects |-> DefaultProjects, tasks |-> tasks,
                  lsP |-> <<>>, lsT |-> IF tasks = <<>> THEN <<>> ELSE <<tasks>>,
                  tblP |-> IF db THEN [i \in 1..Len(DefaultProjects) |->
                                          ProjectRow(DefaultProjects[i])]
                           ELSE <<>>,
                  tblT |-> IF db THEN [i \in 1..Len(tasks) |-> TaskRow(tasks[i])] ELSE <<>>,
                  selected |-> 0, nextId |-> 3, n |-> 0,
                  last |-> [op |-> "mount", id |-> 0]]

NextPage ==
    \/ \E id \in 1..2 : OpenProject(id)
    \/ CloseProject
    \/ HandleAddTask
    \/ \E taskId \in 2..4 : HandleToggleTask(taskId)
    \/ \E taskId \in 2..4 : HandleDeleteTask(taskId)
    \/ HandleDelete
    \/ \E id \in 1..2 : ListDelete(id)
    \/ \E id \in 1..2, status \in {"on-hold", "completed"} : ChangeStatus(id, status)
    \/ \E id \in 2..4 : RemoveTask(id)

SpecPage == InitPage /\ [][NextPage]_vars

-----------------------------------------------------------------------------
(* hooks/useLocalStorage in two tabs: in each tab the hook of two keys, the  *)
(* localStorage the tabs share, and the storage events on their way to a tab *)

MaxWrites == 3

Tabs == {1, 2}

TasksKey == "lumina-tasks"

ThemeKey == "lumina-theme"

Keys == {TasksKey, ThemeKey}

\* The initialValue argument of the hook of a key.
InitialOf(key) == IF key = TasksKey THEN <<>> ELSE "light"

\* readValue: item ? JSON.parse(item) : initialValue
ReadItem(key, item) == IF item # <<>> THEN FromJson(item[1]) ELSE InitialOf(key)

\* The values a tab's handlers pass to setValue: a task added to an empty
\* list, the task's completed flipped, its priority lowered; the other theme.
ValuesToStore(key, storedValue) ==
    IF key = TasksKey
    THEN IF storedValue = <<>> THEN {<<PlainTask>>}
         ELSE {[i \in 1..Len(storedValue) |-> Toggled(storedValue[i], 0)],
               [i \in 1..Len(storedValue) |-> Merge(storedValue[i], [priority |-> "low"])]}
    ELSE {IF storedValue = "light" THEN "dark" ELSE "light"}

\* A faulty handler: it keeps its own priority of a task the event also holds.
OnStorageMerging(storedValue, key, e) ==
    IF e.key = key /\ e.newValue # <<>>
    THEN IF key = TasksKey
         THEN LET incoming == FromJson(e.newValue[1])
              IN  [i \in 1..Len(incoming) |->
                     IF i <= Len(storedValue) /\ storedValue[i].id = incoming[i].id
                     THEN Merge(incoming[i], [priority |-> storedValue[i].priority])
                     ELSE incoming[i]]
         ELSE FromJson(e.newValue[1])
    ELSE storedValue

\* handleStorageChange of the hook of a key: the event of that key, with a
\* new value, replaces storedValue by the parsed value.
OnStorage(storedValue, key, e) ==
    IF e.key = key /\ e.newValue # <<>> THEN FromJson(e.newValue[1]) ELSE storedValue

\* The storage event a write leaves for the other tabs: the browser fires
\* none when the item's text does not change.  wrote is history: the value
\* the writer stored.
Notify(inbox, writer, key, item, wrote, old) ==
    [t \in Tabs |-> IF t # writer /\ item # old
                    THEN Append(inbox[t], [key |-> key, newValue |-> item, wrote |-> wrote])
                    ELSE inbox[t]]

\* setValue(value) in a tab: the state, then localStorage.setItem.
SetValue(t, key, valueToStore) ==
    /\ tabs.phase = "on" /\ tabs.n < MaxWrites
    /\ valueToStore \in ValuesToStore(key, tabs.value[t][key])
    /\ tabs' = [tabs EXCEPT !.value[t][key] = valueToStore,
                            !.store[key] = <<ToJson(valueToStore)>>,
                            !.inbox = Notify(tabs.inbox, t, key, <<ToJson(valueToStore)>>,
                                             <<valueToStore>>, tabs.store[key]),
                            !.n = tabs.n + 1,
                            !.last = [op |-> "set", tab |-> t, key |-> key]]
    /\ UNCHANGED <<hook, rt, up, page, live, timer, boot, repo, calls>>

\* The item is removed from outside the two tabs (the browser's site data
\* is cleared): each tab gets the event, its newValue null.
RemoveItem(key) ==
    /\ tabs.phase = "on" /\ tabs.n < MaxWrites
    /\ tabs.store[key] # <<>>
    /\ tabs' = [tabs EXCEPT !.store[key] = <<>>,
                            !.inbox = Notify(tabs.inbox, 0, key, <<>>, <<>>, tabs.store[key]),
                            !.n = tabs.n + 1,
                            !.last = [op |-> "remove", tab |-> 0, key |-> key]]
    /\ UNCHANGED <<hook, rt, up, page, live, timer, boot, repo, calls>>

\* A tab takes the next storage event: the listener of each of its hooks runs.
HandleStorageChange(t) ==
    /\ tabs.phase = "on" /\ tabs.inbox[t] # <<>>
    /\ LET e == Head(tabs.inbox[t])
       IN  tabs' = [tabs EXCEPT !.value[t] = [key \in Keys |->
                                                OnStorage(tabs.value[t][key], key, e)],
                                !.inbox[t] = Tail(tabs.inbox[t]),
                                !.last = [op |-> "storage", tab |-> t, key |-> e.key]]
    /\ UNCHANGED <<hook, rt, up, page, live, timer, boot, repo, calls>>

InitTabs ==
    /\ kind = "task"
    /\ ls = <<>> /\ blob = <<>>
    /\ Mounted
    /\ rt = [phase |-> "off", e |-> <<>>, rows |-> <<>>, back |-> <<>>]
    /\ up = [phase |-> "off"]
    /\ page = [phase |-> "off"]
    /\ live = [phase |-> "off"]
    /\ timer = [phase |-> "off"]
    /\ boot = [phase |-> "off"]
    /\ repo = [phase |-> "off"]
    /\ calls = [phase |-> "off"]
    /\ \E present \in [Keys -> BOOLEAN] :
          LET store == [key \in Keys |->
                          IF ~present[key] THEN <<>>
                          ELSE IF key = TasksKey THEN <<ToJson(<<PlainTask>>)>>
                          ELSE <<ToJson("dark")>>]
          IN  tabs = [phase |-> "on", store |-> store,
                      value |-> [t \in Tabs |-> [key \in Keys |-> ReadItem(key, store[key])]],
                      inbox |-> [t \in Tabs |-> <<>>],
                      n |-> 0, last |-> [op |-> "mount", tab |-> 0, key |-> ""]]

NextTabs ==
    \/ \E t \in Tabs, key \in Keys :
          \E valueToStore \in ValuesToStore(key, tabs.value[t][key]) :
             SetValue(t, key, valueToStore)
    \/ \E key \in Keys : RemoveItem(key)
    \/ \E t \in Tabs : HandleStorageChange(t)

SpecTabs == InitTabs /\ [][NextTabs]_vars

-----------------------------------------------------------------------------
(* The backend selection under fair scheduling: React runs the effects of a  *)
(* render; the readiness signal and the user's events may never come.        *)

\* The other studies' variables, which the steps of this one leave alone.
BesideLive == <<rt, up, page, tabs, timer, boot, repo, calls>>

LiveReady == InitDatabaseDone /\ live' = live /\ UNCHANGED BesideLive

\* The load effect; raised: the catch branch of this run was taken.
LiveLoad ==
    /\ LoadEffect
    /\ live' = [live EXCEPT !.raised = (lastOp'.how = "error")]
    /\ UNCHANGED BesideLive

LiveSweep == SweepEffect /\ live' = live /\ UNCHANGED BesideLive

\* A new instance of the hook: its load effect has not run.
LiveRemount == Remount /\ live' = [live EXCEPT !.raised = FALSE] /\ UNCHANGED BesideLive

LiveStorage(v) == StorageEvent(v) /\ live' = live /\ UNCHANGED BesideLive

LiveAdd(boom) ==
    /\ \/ AddTask("today", "undefined", FALSE, boom)
       \/ AddProject("undefined", boom)
    /\ live' = live /\ UNCHANGED BesideLive

InitLive ==
    /\ kind \in {"task", "project"}
    /\ ls \in InitialDurable(kind)
    /\ blob \in InitialBlobs(kind)
    /\ Mounted
    /\ rt = [phase |-> "off", e |-> <<>>, rows |-> <<>>, back |-> <<>>]
    /\ up = [phase |-> "off"]
    /\ page = [phase |-> "off"]
    /\ tabs = [phase |-> "off"]
    /\ timer = [phase |-> "off"]
    /\ boot = [phase |-> "off"]
    /\ repo = [phase |-> "off"]
    /\ calls = [phase |-> "off"]
    /\ live = [phase |-> "on", raised |-> FALSE]

NextLive ==
    \/ LiveReady
    \/ LiveLoad
    \/ LiveSweep
    \/ LiveRemount
    \/ \E v \in OtherTabValues(kind) : LiveStorage(v)
    \/ \E boom \in BOOLEAN : LiveAdd(boom)

\* React runs every effect it has queued.
SpecLive == InitLive /\ [][NextLive]_vars /\ WF_vars(LiveLoad) /\ WF_vars(LiveSweep)

-----------------------------------------------------------------------------
(* hooks/useTimer: the Pomodoro timer and the 'zen-timer' item it persists.  *)
(* timer.stored is the localStorage item, timer.state the timerState of the  *)
(* hook, timer.localRemaining the seconds shown, timer.interval whether      *)
(* intervalRef holds a running interval.                                     *)

\* The seconds the model lets an interval count.
MaxTicks == 3

FOCUS_DURATION == 25 * 60
BREAK_DURATION == 5 * 60

BesideTimer == <<rt, up, page, tabs, live, boot, repo, calls>>

DurationOf(mode) == IF mode = "focus" THEN FOCUS_DURATION ELSE BREAK_DURATION

\* The initialValue given to useLocalStorage.
DefaultTimer ==
    [duration |-> FOCUS_DURATION, remaining |-> FOCUS_DURATION, isRunning |-> FALSE,
     sessions |-> 0, mode |-> "focus"]

\* readValue of useLocalStorage for 'zen-timer'.
TimerRead(item) == IF item = <<>> THEN DefaultTimer ELSE FromJson(item[1])

\* What an earlier session can have left in 'zen-timer': every write of the
\* hook stores the full duration of the mode, or (pause) the seconds shown.
SavedTimers ==
    {[duration |-> DurationOf(mode), remaining |-> rem, isRunning |-> run,
      sessions |-> s, mode |-> mode] :
        mode \in {"focus", "break"}, rem \in {1, 2, FOCUS_DURATION, BREAK_DURATION},
        run \in BOOLEAN, s \in 0..1}

\* The hook after its first render and its effects: the resume effect starts
\* an interval when the stored state says the timer was running.
TimerMounted(item, n, op) ==
    [phase |-> "on", stored |-> item, state |-> TimerRead(item),
     localRemaining |-> TimerRead(item).remaining,
     interval |-> TimerRead(item).isRunning, ticks |-> n, last |-> op]

\* setTimerState(v): the state and the item; the sync effect copies
\* timerState.remaining to localRemaining when it changed.
SetTimerState(v, shown, running, op) ==
    timer' = [timer EXCEPT !.state = v, !.stored = <<ToJson(v)>>,
                           !.localRemaining = IF v.remaining # timer.state.remaining
                                              THEN v.remaining ELSE shown,
                           !.interval = running, !.last = op]

\* What tick stores when the countdown reaches zero.
NextSession(state) ==
    LET newMode == IF state.mode = "focus" THEN "break" ELSE "focus"
    IN  [duration |-> DurationOf(newMode), remaining |-> DurationOf(newMode),
         isRunning |-> FALSE,
         sessions |-> IF state.mode = "focus" THEN state.sessions + 1 ELSE state.sessions,
         mode |-> newMode]

TimerStart ==
    /\ timer.phase = "on"
    /\ ~timer.state.isRunning /\ ~timer.interval
    /\ SetTimerState([timer.state EXCEPT !.isRunning = TRUE], timer.localRemaining,
                     TRUE, "start")
    /\ UNCHANGED <<hook, BesideTimer>>

\* The interval fires: one second less on the display, and nothing stored
\* until the countdown completes.
TimerTick ==
    /\ timer.phase = "on" /\ timer.interval /\ timer.ticks < MaxTicks
    /\ IF timer.localRemaining <= 1
       THEN timer' = [timer EXCEPT !.state = NextSession(timer.state),
                                   !.stored = <<ToJson(NextSession(timer.state))>>,
                                   !.localRemaining = NextSession(timer.state).duration,
                                   !.interval = FALSE, !.ticks = @ + 1, !.last = "tick"]
       ELSE timer' = [timer EXCEPT !.localRemaining = @ - 1, !.ticks = @ + 1,
                                   !.last = "tick"]
    /\ UNCHANGED <<hook, BesideTimer>>

TimerPause ==
    /\ timer.phase = "on"
    /\ SetTimerState([timer.state EXCEPT !.isRunning = FALSE,
                                         !.remaining = timer.localRemaining],
                     timer.localRemaining, FALSE, "pause")
    /\ UNCHANGED <<hook, BesideTimer>>

TimerReset ==
    /\ timer.phase = "on"
    /\ SetTimerState([timer.state EXCEPT !.duration = DurationOf(timer.state.mode),
                                         !.remaining = DurationOf(timer.state.mode),
                                         !.isRunning = FALSE],
                     DurationOf(timer.state.mode), FALSE, "reset")
    /\ UNCHANGED <<hook, BesideTimer>>

SkipToNext ==
    /\ timer.phase = "on"
    /\ SetTimerState([NextSession(timer.state) EXCEPT !.sessions = timer.state.sessions],
                     NextSession(timer.state).duration, FALSE, "skip")
    /\ UNCHANGED <<hook, BesideTimer>>

\* The page is reloaded: the interval and the React state are gone, the
\* item stays, and the hook mounts again from it.
TimerReload ==
    /\ timer.phase = "on" /\ timer.last # "reload"
    /\ timer' = TimerMounted(timer.stored, timer.ticks, "reload")
    /\ UNCHANGED <<hook, BesideTimer>>

InitTimer ==
    /\ kind = "task" /\ ls = <<>> /\ blob = <<>>
    /\ Mounted
    /\ rt = [phase |-> "off", e |-> <<>>, rows |-> <<>>, back |-> <<>>]
    /\ up = [phase |-> "off"]
    /\ page = [phase |-> "off"]
    /\ tabs = [phase |-> "off"]
    /\ live = [phase |-> "off"]
    /\ boot = [phase |-> "off"]
    /\ repo = [phase |-> "off"]
    /\ calls = [phase |-> "off"]
    /\ \E item \in {<<>>} \cup {<<ToJson(t)>> : t \in SavedTimers} :
         timer = TimerMounted(item, 0, "mount")

NextTimer ==
    \/ TimerStart
    \/ TimerTick
    \/ TimerPause
    \/ TimerReset
    \/ SkipToNext
    \/ TimerReload

SpecTimer == InitTimer /\ [][NextTimer]_vars

-----------------------------------------------------------------------------
(* services/database: the module variables db and dbInitPromise, and the     *)
(* callers of initDatabase.  boot.db is 0 for null, else the number of the   *)
(* store instance; boot.promise is the state of dbInitPromise; boot.waiting  *)
(* counts the callers whose await has not resumed; boot.got holds the        *)
(* instances the callers of this open period were given.                     *)

\* The calls of initDatabase the model makes between two closes.
MaxCallers == 3

\* The times the model closes the store.
MaxCloses == 2

BesideBoot == <<rt, up, page, tabs, live, timer, repo, calls>>

\* A faulty initDatabase: it does not look at dbInitPromise.
InitDatabaseBranchNoPromise(db, promise) ==
    IF db # 0 THEN "instance" ELSE "start"

\* if (db) return db; if (dbInitPromise) return dbInitPromise; else the
\* initialization starts.
InitDatabaseBranch(db, promise) ==
    IF db # 0 THEN "instance"
    ELSE IF promise # "none" THEN "join"
    ELSE "start"

\* A caller calls initDatabase().
CallInitDatabase ==
    /\ boot.phase = "on" /\ boot.made_calls < MaxCallers
    /\ LET branch == InitDatabaseBranch(boot.db, boot.promise)
       IN  boot' = [boot EXCEPT
              !.made_calls = @ + 1,
              !.last = branch,
              !.found = IF boot.db # 0 THEN "done"
                        ELSE IF boot.promise = "pending" THEN "in flight"
                        ELSE boot.promise,
              !.got = IF branch = "instance" THEN @ \cup {boot.db} ELSE @,
              !.after = IF branch = "instance" THEN @ + 1 ELSE @,
              !.joined = IF branch = "join" /\ boot.promise = "pending" THEN @ + 1 ELSE @,
              !.failed = IF branch = "join" /\ boot.promise = "rejected" THEN @ + 1 ELSE @,
              !.waiting = IF branch = "instance" \/ boot.promise = "rejected" THEN @
                          ELSE @ + 1,
              !.started = IF branch = "start" THEN @ + 1 ELSE @,
              !.flying = IF branch = "start" THEN @ + 1 ELSE @,
              !.promise = IF branch = "start" THEN "pending" ELSE @]
    /\ UNCHANGED <<hook, BesideBoot>>

\* An initialization that was started completes: initSqlJs resolved, the
\* store is loaded from the saved blob or created, db is assigned, and the
\* callers awaiting the promise of that initialization resume with it.  The
\* promise the module holds is the one of the initialization started last.
InitCompletes ==
    /\ boot.phase = "on" /\ boot.flying > 0
    /\ boot' = [boot EXCEPT
          !.made = @ + 1, !.db = boot.made + 1,
          !.flying = @ - 1,
          !.promise = IF boot.flying = 1 THEN "resolved" ELSE @,
          !.got = IF boot.waiting > 0 THEN @ \cup {boot.made + 1} ELSE @,
          !.waiting = IF boot.flying = 1 THEN 0 ELSE @ - 1,
          !.last = "completed"]
    /\ UNCHANGED <<hook, BesideBoot>>

\* initSqlJs rejects (the WASM file cannot be loaded): the promise is
\* rejected, db stays null, the awaiting callers catch the error.
InitFails ==
    /\ boot.phase = "on" /\ boot.flying = 1 /\ boot.promise = "pending"
    /\ boot' = [boot EXCEPT !.promise = "rejected", !.flying = 0,
                            !.failed = @ + boot.waiting, !.waiting = 0,
                            !.last = "rejected"]
    /\ UNCHANGED <<hook, BesideBoot>>

\* closeDatabase(), the cleanup of the provider's effect: with no store it
\* does nothing; else the store is saved and closed and both variables are
\* cleared, which begins a new open period.
CloseDatabase ==
    /\ boot.phase = "on" /\ boot.closes < MaxCloses
    /\ IF boot.db # 0
       THEN boot' = [boot EXCEPT !.db = 0, !.promise = "none", !.closes = @ + 1,
                                 !.made_calls = 0, !.started = 0, !.got = {},
                                 !.joined = 0, !.after = 0, !.failed = 0,
                                 !.found = "", !.last = "closed"]
       ELSE boot' = [boot EXCEPT !.closes = @ + 1, !.last = "close ignored"]
    /\ UNCHANGED <<hook, BesideBoot>>

InitBoot ==
    /\ kind = "task" /\ ls = <<>> /\ blob \in InitialBlobs("task")
    /\ Mounted
    /\ rt = [phase |-> "off", e |-> <<>>, rows |-> <<>>, back |-> <<>>]
    /\ up = [phase |-> "off"]
    /\ page = [phase |-> "off"]
    /\ tabs = [phase |-> "off"]
    /\ live = [phase |-> "off"]
    /\ timer = [phase |-> "off"]
    /\ repo = [phase |-> "off"]
    /\ calls = [phase |-> "off"]
    /\ boot = [phase |-> "on", db |-> 0, promise |-> "none", waiting |-> 0,
               flying |-> 0, started |-> 0, made |-> 0, made_calls |-> 0,
               got |-> {}, joined |-> 0, after |-> 0, failed |-> 0, closes |-> 0,
               found |-> "", last |-> "loaded"]

NextBoot ==
    \/ CallInitDatabase
    \/ InitCompletes
    \/ InitFails
    \/ CloseDatabase

SpecBoot == InitBoot /\ [][NextBoot]_vars

-----------------------------------------------------------------------------
(* services/taskRepository statement by statement: repo.rows is the tasks    *)
(* table of the store, repo.saved the rows of the persisted blob, repo.pc    *)
(* the position inside the repository function that is running, repo.lag    *)
(* the mutating statements that ran since saveDatabase was last called.      *)

\* The repository functions the model calls.
MaxStatements == 3

BesideRepo == <<rt, up, page, tabs, live, timer, boot, calls>>

\* A task the caller inserts.
FreshTask == [PlainTask EXCEPT !.id = 3, !.order = 2]

\* insertTask, updateTask, deleteTask, toggleTask: the one db.run of the
\* function.  A statement that raises leaves the function at once.
SingleStatement(fn, id, boom) ==
    /\ repo.phase = "on" /\ repo.pc = "idle" /\ repo.n < MaxStatements
    /\ LET res == CASE fn = "insert" -> InsertTask(repo.rows, [FreshTask EXCEPT !.id = id], boom)
                    [] fn = "update" ->
                         UpdateTaskRow(repo.rows, [FreshTask EXCEPT !.id = id, !.title = "u"], boom)
                    [] fn = "delete" -> DeleteTaskRow(repo.rows, id, boom)
                    [] fn = "toggle" -> ToggleTaskRow(repo.rows, id, boom)
       IN  repo' = [repo EXCEPT !.rows = res.rows,
                                !.lag = IF res.ok THEN @ + 1 ELSE @,
                                !.pc = IF res.ok THEN "save" ELSE "idle",
                                !.n = @ + 1, !.last = fn]
    /\ UNCHANGED <<hook, BesideRepo>>

\* updateTaskOrder(category, orderedIds) is entered.
ReorderCall(orderedIds) ==
    /\ repo.phase = "on" /\ repo.pc = "idle" /\ repo.n < MaxStatements
    /\ repo' = [repo EXCEPT !.ids = orderedIds, !.k = 1,
                            !.pc = IF orderedIds = <<>> THEN "save" ELSE "each",
                            !.n = @ + 1, !.last = "reorder"]
    /\ UNCHANGED <<hook, BesideRepo>>

\* One turn of orderedIds.forEach: UPDATE tasks SET task_order = index.
ReorderStatement(boom) ==
    /\ repo.phase = "on" /\ repo.pc = "each"
    /\ IF boom
       THEN repo' = [repo EXCEPT !.pc = "idle", !.last = "raised"]
       ELSE repo' = [repo EXCEPT
                !.rows = SetOrders(repo.rows, repo.ids, repo.k, repo.k),
                !.lag = @ + 1, !.k = @ + 1,
                !.pc = IF repo.k = Len(repo.ids) THEN "save" ELSE "each",
                !.last = "order"]
    /\ UNCHANGED <<hook, BesideRepo>>

\* saveDatabase(): the export is stored, or the write raises and is caught.
RepoSave(quota) ==
    /\ repo.phase = "on" /\ repo.pc = "save"
    /\ repo' = [repo EXCEPT !.saved = IF quota THEN @ ELSE repo.rows,
                            !.lag = 0, !.pc = "idle", !.last = "save"]
    /\ UNCHANGED <<hook, BesideRepo>>

InitRepo ==
    /\ kind = "task" /\ ls = <<>> /\ blob = <<>>
    /\ Mounted
    /\ rt = [phase |-> "off", e |-> <<>>, rows |-> <<>>, back |-> <<>>]
    /\ up = [phase |-> "off"]
    /\ page = [phase |-> "off"]
    /\ tabs = [phase |-> "off"]
    /\ live = [phase |-> "off"]
    /\ timer = [phase |-> "off"]
    /\ boot = [phase |-> "off"]
    /\ calls = [phase |-> "off"]
    /\ \E stored \in {<<>>, <<TaskRow(PlainTask)>>,
                       <<TaskRow(StaleTask), TaskRow(PlainTask)>>} :
         repo = [phase |-> "on", rows |-> stored, saved |-> stored, pc |-> "idle",
                 ids |-> <<>>, k |-> 1, lag |-> 0, n |-> 0, last |-> "loaded"]

NextRepo ==
    \/ \E fn \in {"insert", "update", "delete", "toggle"}, id \in 1..3, boom \in BOOLEAN :
         SingleStatement(fn, id, boom)
    \/ \E orderedIds \in UNION {Perms(S) : S \in SUBSET IdsOf(repo.rows)} :
         ReorderCall(orderedIds)
    \/ \E boom \in BOOLEAN : ReorderStatement(boom)
    \/ \E quota \in BOOLEAN : RepoSave(quota)

SpecRepo == InitRepo /\ [][NextRepo]_vars

-----------------------------------------------------------------------------
(* Several calls of the task manager's operations from one render: a caller  *)
(* holds the addTask / toggleTask of the last render and calls them more     *)
(* than once before React renders again.  calls.closure is the tasks of that *)
(* render (storedValue of useLocalStorage, or dbTasks), calls.pending the    *)
(* value the state setter was last given, calls.item the 'lumina-tasks'      *)
(* item, calls.rows the tasks table, calls.acked the ids addTask returned.   *)

\* The operations the model calls.
MaxCalls == 3

BesideCalls == <<rt, up, page, tabs, live, timer, boot, repo>>

\* setTasks(updater) of the render: the updater is applied to the
\* collection of the render (dbTasks, or the storedValue the setValue
\* callback closed over), the result is given to the state setter and,
\* Durable-Store-backed, written to localStorage.
CallSetTasks(next) ==
    [calls EXCEPT !.pending = next,
                  !.item = IF calls.useDb THEN @ ELSE <<ToJson(next)>>]

\* addTask(title, cat): the id is new, the order is counted in the tasks of
\* the render.
CallAddTask(cat) ==
    /\ calls.phase = "on" /\ calls.n < MaxCalls
    /\ LET newTask == [PlainTask EXCEPT !.id = calls.nextId, !.category = cat,
                                        !.priority = "medium",
                                        !.order = Len(InCategory(calls.closure, cat))]
       IN  calls' = [CallSetTasks(Append(calls.closure, newTask)) EXCEPT
                        !.rows = IF calls.useDb
                                 THEN InsertTask(calls.rows, newTask, FALSE).rows ELSE @,
                        !.acked = @ \cup {newTask.id}, !.nextId = @ + 1,
                        !.n = @ + 1, !.last = "add"]
    /\ UNCHANGED <<hook, BesideCalls>>

CallToggleTask(id) ==
    /\ calls.phase = "on" /\ calls.n < MaxCalls
    /\ id \in IdsOf(calls.closure)
    /\ calls' = [CallSetTasks([i \in 1..Len(calls.closure) |->
                                 IF calls.closure[i].id # id THEN calls.closure[i]
                                 ELSE Toggled(calls.closure[i], today)]) EXCEPT
                    !.rows = IF calls.useDb THEN ToggleTaskRow(calls.rows, id, FALSE).rows
                             ELSE @,
                    !.n = @ + 1, !.last = "toggle"]
    /\ UNCHANGED <<hook, BesideCalls>>

\* React renders: the operations of the new render see the state.
CallsRender ==
    /\ calls.phase = "on" /\ calls.pending # calls.closure
    /\ calls' = [calls EXCEPT !.closure = calls.pending, !.last = "render"]
    /\ UNCHANGED <<hook, BesideCalls>>

\* The rows insertTask wrote for the tasks.
RowsOf(held) == [i \in 1..Len(held) |-> TaskRow(held[i])]

InitCalls ==
    /\ kind = "task" /\ ls = <<>> /\ blob = <<>>
    /\ Mounted
    /\ rt = [phase |-> "off", e |-> <<>>, rows |-> <<>>, back |-> <<>>]
    /\ up = [phase |-> "off"]
    /\ page = [phase |-> "off"]
    /\ tabs = [phase |-> "off"]
    /\ live = [phase |-> "off"]
    /\ timer = [phase |-> "off"]
    /\ boot = [phase |-> "off"]
    /\ repo = [phase |-> "off"]
    /\ \E relational \in BOOLEAN, held \in {<<>>, <<PlainTask>>} :
         calls = [phase |-> "on", useDb |-> relational,
                  closure |-> IF relational THEN GetAllTasks(RowsOf(held)) ELSE held,
                  pending |-> IF relational THEN GetAllTasks(RowsOf(held)) ELSE held,
                  item |-> IF relational THEN <<>> ELSE <<ToJson(held)>>,
                  rows |-> IF relational THEN RowsOf(held) ELSE <<>>,
                  acked |-> {}, nextId |-> Cardinality(StoredIds) + 1, n |-> 0,
                  last |-> "render"]

NextCalls ==
    \/ \E cat \in Categories : CallAddTask(cat)
    \/ \E id \in StoredIds : CallToggleTask(id)
    \/ CallsRender

SpecCalls == InitCalls /\ [][NextCalls]_vars

TypeOK ==
    /\ Stable => r = [localItems |-> localItems, dbItems |-> dbItems, useDb |-> useDb,
                      dbReady |-> dbReady]
    /\ useDb => dbInit

-----------------------------------------------------------------------------
(* Properties *)

\* The row the repository writes for an entity of the hook's type.
RowOf(e) == IF kind = "task" THEN TaskRow(e) ELSE ProjectRow(e)

\* The steps that are a manager operation or the recurring sweep.
MutatingOps == {"add", "update", "delete", "toggle", "reorder", "sweep"}

HandlerOps == {"add", "update", "delete", "toggle", "reorder"}

\* C1: migration runs at most once per session for an entity type: over any
\* sequence of manager operations, Durable Store change notifications and
\* re-instantiations of the manager, the copy of the Durable Store entities
\* into the Relational Store is performed at most once.
C1_MigrationAtMostOnce == migrations <= 1

OptionalFields == {"projectId", "dueDate", "dueTime", "deadline"}

SameEntity(a, b) ==
    /\ DOMAIN a = DOMAIN b
    /\ \A f \in DOMAIN b :
          IF f \in OptionalFields THEN OrNull(a[f]) = OrNull(b[f]) ELSE a[f] = b[f]

\* C3: read-after-write round trip: for every Task e and every Project e,
\* inserting e through the repository and reading it back returns an entity
\* equal to e in all fields.
C3_RoundTrip ==
    rt.phase = "read" => Len(rt.back) = 1 /\ SameEntity(rt.back[1], rt.e)

\* C4: the recurring sweep persists what it resets: after a sweep that ran
\* relational-backed and reset tasks, the row of each of those tasks has
\* completed = 0.
C4_SweepPersists ==
    (lastOp.op = "sweep" /\ lastOp.db /\ lastOp.reset # {}) =>
        \A i \in 1..Len(table) : table[i].id \in lastOp.reset => table[i].completed = 0

LoadRuns == effq # <<>> /\ Head(effq) = "load" /\ r.dbReady /\ dbInit

NoDuplicateRows == \A i, j \in 1..Len(table) : table[i].id = table[j].id => i = j

\* C6: migration idempotence: the load effect run against a table that holds
\* at least one row inserts nothing and does not copy; the table never holds
\* two rows of the same id.
C6_MigrationIdempotent ==
    /\ [][(LoadRuns /\ table # <<>>) => (table' = table /\ lastOp'.how # "migrated")]_vars
    /\ []NoDuplicateRows

\* The load effect ran with rows in the table and with Durable Store entities
\* that have no row: it loaded and copied nothing.
C6_Witness ==
    /\ lastOp.op = "load" /\ lastOp.how = "loaded"
    /\ table # <<>>
    /\ IdsOf(localItems) \ IdsOf(table) # {}

\* C7: migration: when the load effect finds zero rows and a non-empty
\* Durable Store collection and no insert raises, every Durable Store entity
\* has its row, the manager is relational-backed, and the manager's
\* collection and the repository's getAll hold exactly those entities.
C7_Migration ==
    (lastOp.op = "load" /\ lastOp.how = "migrated") =>
        /\ useDb
        /\ localItems # <<>>
        /\ localItems = ReadValue(kind, ls)
        /\ dbItems = localItems
        /\ Len(table) = Len(localItems)
        /\ \A i \in 1..Len(localItems) : table[i] = RowOf(localItems[i])
        /\ IdsOf(GetAll(table)) = IdsOf(localItems)
        /\ Len(GetAll(table)) = Len(localItems)

\* A migration of two entities.
C7_Witness ==
    /\ lastOp.op = "load" /\ lastOp.how = "migrated"
    /\ Len(localItems) >= 2 /\ Len(table) >= 2

\* C8: an operation writes only the backend of the state it runs in:
\* relational-backed, add / update / remove / toggle / reorder and the sweep
\* leave the Durable Store value of the entity type unchanged; otherwise they
\* leave the Relational Store and its saved copy unchanged.
C8_OneBackendWritten ==
    [][lastOp'.op \in MutatingOps =>
          IF r.useDb THEN ls' = ls ELSE table' = table /\ blob' = blob]_vars

\* A relational-backed add whose row was written while the Durable Store
\* holds another collection.
C8_Witness ==
    /\ lastOp.op = "add" /\ lastOp.db /\ lastOp.ok
    /\ lastOp.id \in IdsOf(table)
    /\ lastOp.id \notin IdsOf(ReadValue(kind, ls))

\* The entity of the collection with the given id.
Entity(items, id) == Find(items, id)[1]

\* What an operation makes of the collection when its repository call
\* succeeds, from the record of the step.
SuccessCase(prev, op, next) ==
    CASE op.op = "add" ->
           /\ Len(next) = Len(prev) + 1
           /\ SubSeq(next, 1, Len(prev)) = prev
           /\ next[Len(next)].id = op.id
      [] op.op = "delete" -> next = SelectSeq(prev, LAMBDA e : e.id # op.id)
      [] op.op = "toggle" ->
           next = [i \in 1..Len(prev) |->
                     IF prev[i].id = op.id THEN Toggled(prev[i], today) ELSE prev[i]]
      [] op.op = "update" ->
           \E u \in TaskUpdates \cup ProjectUpdates :
              (prev # <<>> => DOMAIN u \subseteq DOMAIN prev[1]) /\ next = Merged(prev, op.id, u)
      [] op.op = "reorder" ->
           next = Reordered(prev, op.cat,
                            [i \in 1..Len(op.list) |-> Entity(prev, op.list[i])])

\* C9: fail-open persistence: relational-backed, when the repository call of
\* add / update / remove / toggle / reorder raises, the operation completes
\* and its in-memory mutation is the one of the success case.
C9_FailOpen ==
    [][(lastOp'.op \in HandlerOps /\ r.useDb /\ ~lastOp'.ok) =>
          SuccessCase(r.dbItems, lastOp', dbItems')]_vars

\* A toggle whose repository call raised: the collection has the new
\* completion state, the row the old one.
C9_Witness ==
    /\ lastOp.op = "toggle" /\ lastOp.db /\ ~lastOp.ok
    /\ \E i \in 1..Len(dbItems), j \in 1..Len(table) :
          /\ dbItems[i].id = lastOp.id /\ table[j].id = lastOp.id
          /\ table[j] # RowOf(dbItems[i])

\* The ids a step wrote for.
Targets(op) == IF op.op = "reorder" THEN Range(op.list) ELSE {op.id}

\* C10: re-synchronisation: after a successful relational write (insert,
\* update, toggle, reorder) for an entity one of whose earlier relational
\* mutations failed, the entity's row equals the in-memory entity on every
\* persisted field.
C10_Resynchronised ==
    (lastOp.op \in {"add", "update", "toggle", "reorder"} /\ lastOp.db /\ lastOp.ok) =>
        \A i \in 1..Len(dbItems), j \in 1..Len(table) :
            (/\ dbItems[i].id \in Targets(lastOp) \cap everFailed
             /\ table[j].id = dbItems[i].id) => table[j] = RowOf(dbItems[i])

\* Rounding to the nearest integer, a half going up, of c / t * 100.
RoundHalfUp(c, t) == (200 * c + t) \div (2 * t)

\* C11: progress formula: after updateProgress(id, c, t) on an existing
\* project the progress is round(c / t * 100), a half rounded up, when t > 0
\* and 0 when t = 0, and completedTasks and totalTasks are c and t.
C11_ProgressFormula ==
    up.phase = "done" =>
        /\ up.projects[1].progress = (IF up.t > 0 THEN RoundHalfUp(up.c, up.t) ELSE 0)
        /\ up.projects[1].completedTasks = up.c
        /\ up.projects[1].totalTasks = up.t

\* C12: completion-status linkage: after updateProgress the status is
\* completed if and only if the computed progress is 100 and active
\* otherwise, whatever it was before.
C12_StatusLinkage ==
    up.phase = "done" =>
        /\ up.projects[1].status =
              (IF Progress(up.c, up.t) = 100 THEN "completed" ELSE "active")
        /\ up.projects[2] = DefaultProjects[2]

\* updateProgress on an on-hold project with progress below 100.
C12_Witness ==
    /\ up.phase = "done" /\ up.before = "on-hold"
    /\ up.projects[1].progress < 100 /\ up.projects[1].status = "active"

\* C13: cached-progress invariant: in every state of the projects page every
\* project has progress = round(completedTasks / totalTasks * 100) when
\* totalTasks > 0 and progress = 0 when totalTasks = 0 (the rounding being
\* the one updateProgress computes).
C13_CachedProgress ==
    page.phase = "on" =>
        \A i \in 1..Len(page.projects) :
            page.projects[i].progress =
                Progress(page.projects[i].completedTasks, page.projects[i].totalTasks)

SweepRuns == effq # <<>> /\ Head(effq) = "sweep"

\* The collection the hook binds, as the state holds it.
Held == IF r.useDb THEN dbItems ELSE localItems

\* The same collection after the step.
HeldAfter == IF r.useDb THEN dbItems' ELSE localItems'

\* Recurring, completed, and last completed on another day (or never stamped).
Qualifies(task, day) ==
    /\ task.isRecurring /\ task.completed
    /\ (task.lastCompletedAt = 0 \/ task.lastCompletedAt # day)

\* The sweep has work: a task of the collection it reads qualifies.
SweepHasWork == \E i \in 1..Len(Items) : Qualifies(Items[i], today)

\* C14: after the sweep runs on day D, every task that is recurring, completed
\* and last completed on another day than D (or never stamped) has completed
\* false and its other fields as before; every other task is unchanged in
\* every field; no task is added, removed or moved.  The tasks are those of
\* the collection the sweep reads, the one of the render it runs in; a sweep
\* that finds no such task writes nothing.  And once the effects have settled
\* after a sweep, the collection the hook binds holds no such task.
C14_SweepSemantics ==
    /\ [][SweepRuns =>
            IF SweepHasWork
            THEN /\ Len(HeldAfter) = Len(Items)
                 /\ \A i \in 1..Len(Items) :
                      IF Qualifies(Items[i], today)
                      THEN HeldAfter[i] = [Items[i] EXCEPT !.completed = FALSE]
                      ELSE HeldAfter[i] = Items[i]
            ELSE localItems' = localItems /\ dbItems' = dbItems /\ ls' = ls]_vars
    /\ [](Stable /\ lastOp.op = "sweep" =>
            \A i \in 1..Len(Items) : ~Qualifies(Items[i], today))

\* A sweep has reset the stale recurring task and left another task alone.
C14_Witness ==
    /\ lastOp.op = "sweep" /\ lastOp.reset # {}
    /\ \E i \in 1..Len(IF lastOp.db THEN dbItems ELSE localItems) :
          (IF lastOp.db THEN dbItems ELSE localItems)[i].id \notin lastOp.reset

\* C15: a second run of the sweep on the same day, with nothing between the
\* runs, leaves the collection as the first run left it: the collection a
\* run leaves (what it wrote, or what it read when it wrote nothing) holds no
\* task a sweep of that day resets, and the run that follows a run which
\* reset a task of the same collection changes nothing.
C15_SweepIdempotent ==
    [][SweepRuns =>
         /\ \A i \in 1..Len(IF SweepHasWork THEN HeldAfter ELSE Items) :
               ~Qualifies((IF SweepHasWork THEN HeldAfter ELSE Items)[i], today)
         /\ (lastOp.op = "sweep" /\ lastOp.reset # {} /\ lastOp.db = r.useDb) =>
               /\ localItems' = localItems /\ dbItems' = dbItems /\ ls' = ls
               /\ lastOp'.reset = {}]_vars

\* The second of two runs has run: relational-backed, a sweep reset a task,
\* the render it caused ran the sweep again, and that run found nothing.
C15_Witness ==
    /\ lastOp.op = "sweep" /\ lastOp.reset = {} /\ lastOp.db
    /\ Stable
    /\ \E i \in 1..Len(dbItems) :
          dbItems[i].isRecurring /\ ~dbItems[i].completed /\ dbItems[i].lastCompletedAt # 0
             /\ dbItems[i].lastCompletedAt # today

\* C16: toggle(id) flips completed of the task with that id and of no other
\* task; a recurring task that becomes completed is stamped with the current
\* day; a task that becomes incomplete, or does not recur, keeps its stamp;
\* its other fields, and the other tasks, are unchanged.  The relational
\* store's call, when it runs, flips the completed column of that row alone.
C16_Toggle ==
    [][lastOp'.op = "toggle" =>
         /\ Len(HeldAfter) = Len(Items)
         /\ \A i \in 1..Len(Items) :
              IF Items[i].id # lastOp'.id
              THEN HeldAfter[i] = Items[i]
              ELSE /\ HeldAfter[i].completed = ~Items[i].completed
                   /\ HeldAfter[i].lastCompletedAt =
                        IF Items[i].isRecurring /\ HeldAfter[i].completed THEN today
                        ELSE Items[i].lastCompletedAt
                   /\ \A f \in DOMAIN Items[i] \ {"completed", "lastCompletedAt"} :
                        HeldAfter[i][f] = Items[i][f]
         /\ Len(table') = Len(table)
         /\ \A i \in 1..Len(table) :
              IF r.useDb /\ lastOp'.ok /\ table[i].id = lastOp'.id
              THEN table'[i] = [table[i] EXCEPT !.completed = 1 - table[i].completed]
              ELSE table'[i] = table[i]]_vars

\* A recurring task was toggled to completed and carries today's stamp, next
\* to a task the toggle left alone.
C16_Witness ==
    /\ lastOp.op = "toggle"
    /\ \E i, j \in 1..Len(IF lastOp.db THEN dbItems ELSE localItems) :
          LET held == IF lastOp.db THEN dbItems ELSE localItems
          IN  /\ held[i].id = lastOp.id /\ held[i].isRecurring
              /\ held[i].completed /\ held[i].lastCompletedAt = today
              /\ held[j].id # lastOp.id

\* The fields the model's calls of update name.
Updates == IF kind = "task" THEN TaskUpdates ELSE ProjectUpdates

\* The Durable Store's content, as the hook reads it.
Durable(store) == ReadValue(kind, store)

\* C17: update(id, fields) changes only the named fields of the entity with
\* that id; its other fields and every other entity are unchanged.  update or
\* remove with an id of no entity leaves the in-memory collection and the
\* content of the active backend unchanged: the Durable Store reads as
\* before; the relational store's rows are as before, and its saved image
\* is as before or is saved anew from those rows.  (A handler has no failing
\* outcome: what the store's call raises is caught.)
C17_UpdateFrame ==
    [][/\ lastOp'.op = "update" =>
            /\ Len(HeldAfter) = Len(Items)
            /\ \E u \in Updates :
                 \A i \in 1..Len(Items) :
                    IF Items[i].id # lastOp'.id
                    THEN HeldAfter[i] = Items[i]
                    ELSE \A f \in DOMAIN Items[i] :
                           HeldAfter[i][f] = IF f \in DOMAIN u THEN u[f] ELSE Items[i][f]
       /\ (lastOp'.op \in {"update", "delete"} /\ lastOp'.id \notin IdsOf(Items)) =>
            /\ HeldAfter = Items /\ HeldAfter = Held
            /\ IF r.useDb THEN table' = table /\ (blob' = blob \/ blob' = table)
               ELSE Durable(ls') = Durable(ls) /\ table' = table /\ blob' = blob]_vars

\* An update has set a field of one task of two, and then a removal named
\* no entity.
C17_Witness ==
    /\ kind = "task" /\ lastOp.op = "delete" /\ lastOp.id = NewId
    /\ LET held == IF lastOp.db THEN dbItems ELSE localItems
       IN  /\ Len(held) = 2
           /\ \E i, j \in 1..2 :
                held[i].projectId = "p1" /\ held[j].projectId # "p1"

\* The number of tasks of a category in a collection.
CountIn(tasks, cat) == Cardinality({i \in 1..Len(tasks) : tasks[i].category = cat})

C20_WholeValue ==
    [][(tabs.phase = "on" /\ tabs'.last.op = "storage") =>
         LET t == tabs'.last.tab
             e == Head(tabs.inbox[t])
         IN  /\ e.wrote # <<>> => tabs'.value[t][e.key] = e.wrote[1]
             /\ \A key \in Keys \ {e.key} : tabs'.value[t][key] = tabs.value[t][key]
             /\ \A u \in Tabs \ {t} : tabs'.value[u] = tabs.value[u]
             /\ tabs'.store = tabs.store]_vars

\* One tab completed the task while the other lowered its priority; the
\* second has handled the first's event and holds the first's task whole:
\* completed, and of high priority again.
C20_Witness ==
    /\ tabs.phase = "on" /\ tabs.last.op = "storage" /\ tabs.last.key = TasksKey
    /\ tabs.store[TasksKey] = <<ToJson(<<Merge(PlainTask, [priority |-> "low"])>>)>>
    /\ tabs.value[tabs.last.tab][TasksKey] = <<Merge(PlainTask, [completed |-> TRUE])>>

C22_TimerSurvivesReload ==
    [][(timer'.last = "reload" /\ timer.state.isRunning) =>
         /\ timer'.state.isRunning /\ timer'.interval
         /\ timer'.localRemaining = timer.localRemaining]_vars

\* C23: a call of initDatabase made while an initialization is in flight, or
\* after it completed or failed, starts no initialization: between two
\* closes of the store at most one is started; and every caller that is
\* given a store instance is given the one instance that initialization
\* made, which is the module's db.
C23_InitIdempotent ==
    /\ [](boot.phase = "on" => boot.started <= 1 /\ boot.flying <= 1)
    /\ [](boot.phase = "on" =>
            /\ Cardinality(boot.got) <= 1
            /\ (boot.got # {} => boot.got = {boot.db}))
    /\ [][(boot'.last \in {"instance", "join", "start"} /\ boot'.found # "none") =>
            /\ boot'.last # "start"
            /\ boot'.started = boot.started /\ boot'.made = boot.made
            /\ boot'.db = boot.db]_vars

\* One call started the initialization, another was made while it was in
\* flight and a third after it completed; all were given the same store.
C23_Witness ==
    /\ boot.phase = "on" /\ boot.db # 0
    /\ boot.started = 1 /\ boot.joined >= 1 /\ boot.after >= 1
    /\ boot.waiting = 0 /\ boot.got = {boot.db}

\* C24: every mutating statement of a repository function is followed by
\* saveDatabase before another mutating statement runs: at most one
\* statement has run since the store was last exported.
C24_SaveAfterEachStatement == repo.phase = "on" => repo.lag <= 1

\* The id addTask gave the session's first new task.
FirstAddedId == Cardinality(StoredIds) + 1

\* C25: a task added while the manager was Durable-Store-backed, and still
\* in its collection, is in the manager's collection after the load effect
\* has run, whatever the Relational Store held before.
C25_NoTaskLost ==
    [][(lastOp'.op = "load" /\ kind = "task" /\ ~r.useDb /\ added >= 1
          /\ FirstAddedId \in IdsOf(localItems)) =>
         FirstAddedId \in IdsOf(IF useDb' THEN dbItems' ELSE localItems')]_vars

\* C26: a reorder issued by the task page's drag-and-drop, whatever the
\* filter, leaves the set of task ids of the manager's collection as it
\* was and the tasks of the other categories unchanged.
C26_ReorderKeepsTasks ==
    [][lastOp'.op = "reorder" =>
         /\ IdsOf(HeldAfter) = IdsOf(Items)
         /\ \A t \in Range(Items) : t.category # lastOp'.cat => t \in Range(HeldAfter)]_vars

\* C27: operations called one after the other before the component renders
\* again are all reflected: every task an add returned is in the
\* collection the manager will render and in its persisted copy.
C27_NoLostUpdate ==
    calls.phase = "on" =>
        /\ calls.acked \subseteq IdsOf(calls.pending)
        /\ calls.acked \subseteq IdsOf(IF calls.useDb THEN calls.rows
                                        ELSE FromJson(calls.item[1]))

\* C28: once every change notification has been delivered, each tab's value
\* of a key equals the value the Durable Store holds under the key (the
\* last writer's), also when the two tabs wrote before either received
\* the other's notification.
C28_Convergence ==
    (tabs.phase = "on" /\ \A t \in Tabs : tabs.inbox[t] = <<>>) =>
        \A t \in Tabs, key \in Keys :
            tabs.store[key] # <<>> => tabs.value[t][key] = ReadItem(key, tabs.store[key])

\* The tasks table and the collection hold the same ids and, for each id,
\* equal title, completed, category, priority, projectId, dueDate and order.
Agree(rows, tasks) ==
    /\ IdsOf(rows) = IdsOf(tasks)
    /\ \A i \in 1..Len(rows), j \in 1..Len(tasks) :
          rows[i].id = tasks[j].id =>
             /\ rows[i].title = tasks[j].title
             /\ rows[i].completed = (IF tasks[j].completed THEN 1 ELSE 0)
             /\ rows[i].category = tasks[j].category
             /\ rows[i].priority = tasks[j].priority
             /\ rows[i].project_id = OrNull(tasks[j].projectId)
             /\ rows[i].due_date = OrNull(tasks[j].dueDate)
             /\ rows[i].task_order = tasks[j].order

\* C29: relational-backed, the tasks table and the manager's collection
\* agree when the load effect has loaded or migrated, and an add, update,
\* toggle, remove or reorder (with the complete list of the category) whose
\* repository call did not raise takes an agreeing table and collection to
\* an agreeing table and collection.
C29_Agreement ==
    /\ [][(kind = "task" /\ lastOp'.op = "load" /\ lastOp'.how \in {"loaded", "migrated"}) =>
            Agree(table', dbItems')]_vars
    /\ [][(/\ kind = "task" /\ r.useDb /\ Agree(table, dbItems)
           /\ lastOp'.op \in {"add", "update", "toggle", "delete", "reorder"}
           /\ lastOp'.ok
           /\ lastOp'.op = "reorder" =>
                 Range(lastOp'.list) = IdsOf(InCategory(Items, lastOp'.cat))) =>
            Agree(table', dbItems')]_vars

\* Relational-backed, just after a reorder of the two tasks of a category:
\* the table and the collection agree, in the new order.
C29_Witness ==
    /\ kind = "task" /\ useDb /\ lastOp.db /\ lastOp.ok
    /\ lastOp.op = "reorder" /\ Len(lastOp.list) = 2
    /\ Len(table) = 2 /\ Agree(table, dbItems)
    /\ dbItems[1].id = lastOp.list[1] /\ dbItems[1].id # table[1].id

\* C30: after updateProgress(id, c, t) with 0 <= c <= t and t > 0 the
\* project's status is completed if and only if c = t.
C30_CompletedIffAllDone ==
    (up.phase = "done" /\ up.t > 0 /\ up.c <= up.t) =>
        (up.projects[1].status = "completed" <=> up.c = up.t)

=============================================================================
